---- MODULE Spec2Model ----
(***************************************************************************)
(* A model of the institutional-holdings scraper: main() in src/src/main.py *)
(* driving InsiderMonkeyLogin (src/src/login.py), InsiderMonkeyScraper      *)
(* (src/src/scraper.py) and the helpers of src/src/utils.py.                *)
(*                                                                         *)
(* Text is modelled as a sequence of one-character strings, so that the    *)
(* cleaning, matching and mapping functions are computed as the code       *)
(* computes them.  The characters NBSP, NDASH and MDASH stand for U+00A0,  *)
(* U+2013 and U+2014.                                                      *)
(***************************************************************************)
EXTENDS Integers, Sequences, FiniteSets, TLC

\* ------------------------------------------------------------------------
\* Bounds of the model
\* ------------------------------------------------------------------------

\* most <table> elements on one page snapshot
MaxTables == 2
\* most class-matched historical containers on one page
MaxSections == 3
\* most quarter tab elements found on one page
MaxTabs == 9
\* most cells of a generated data row (table parsing specification)
MaxCells == 3
\* most data rows of a generated table (table parsing specification)
MaxRows == 2

\* ------------------------------------------------------------------------
\* Characters and text
\* ------------------------------------------------------------------------

NBSP == "nbsp"
NDASH == "ndash"
MDASH == "mdash"

\* characters matched by \s and removed by str.strip()
Whitespace == {" ", "\n", "\t", NBSP}

Digits == {"0", "1", "2", "3", "4", "5", "6", "7", "8", "9"}

UpperLetters ==
    <<"A","B","C","D","E","F","G","H","I","J","K","L","M",
      "N","O","P","Q","R","S","T","U","V","W","X","Y","Z">>

LowerLetters ==
    <<"a","b","c","d","e","f","g","h","i","j","k","l","m",
      "n","o","p","q","r","s","t","u","v","w","x","y","z">>

\* the lower-case letter of each upper-case letter, and the converse
LowerOf ==
    [c \in {UpperLetters[i] : i \in 1..26} |->
        LowerLetters[CHOOSE i \in 1..26 : UpperLetters[i] = c]]

UpperOf ==
    [c \in {LowerLetters[i] : i \in 1..26} |->
        UpperLetters[CHOOSE i \in 1..26 : LowerLetters[i] = c]]

\* str.lower() on one character
LowerChar(c) == IF c \in DOMAIN LowerOf THEN LowerOf[c] ELSE c

\* str.upper() on one character
UpperChar(c) == IF c \in DOMAIN UpperOf THEN UpperOf[c] ELSE c

Lower(s) == [i \in 1..Len(s) |-> LowerChar(s[i])]

Upper(s) == [i \in 1..Len(s) |-> UpperChar(s[i])]

\* Python's `sub in s`
Contains(sub, s) ==
    \E i \in 0..(Len(s) - Len(sub)) :
        \A j \in 1..Len(sub) : s[i + j] = sub[j]

\* str.strip(): drop leading and trailing whitespace
Strip(s) ==
    LET keep == {i \in 1..Len(s) : s[i] \notin Whitespace}
    IN  IF keep = {} THEN <<>>
        ELSE LET lo == CHOOSE i \in keep : \A j \in keep : i <= j
                 hi == CHOOSE i \in keep : \A j \in keep : j <= i
             IN  SubSeq(s, lo, hi)

\* re.sub(r'\s+', ' ', s): every run of whitespace becomes one space
RECURSIVE CollapseWs(_)
CollapseWs(s) ==
    IF s = <<>> THEN <<>>
    ELSE IF Head(s) \in Whitespace
         THEN IF Len(s) > 1 /\ s[2] \in Whitespace
              THEN CollapseWs(Tail(s))
              ELSE <<" ">> \o CollapseWs(Tail(s))
         ELSE <<Head(s)>> \o CollapseWs(Tail(s))

\* str.replace(old, new) for a single character old
ReplaceChar(s, old, new) == [i \in 1..Len(s) |-> IF s[i] = old THEN new ELSE s[i]]

\* str.replace(c, '') and re.sub('[...]', '', s): delete the characters of cs
RECURSIVE RemoveChars(_, _)
RemoveChars(s, cs) ==
    IF s = <<>> THEN <<>>
    ELSE IF Head(s) \in cs THEN RemoveChars(Tail(s), cs)
         ELSE <<Head(s)>> \o RemoveChars(Tail(s), cs)

\* str.isdigit(): non-empty and every character a digit
IsDigit(s) == s # <<>> /\ \A i \in 1..Len(s) : s[i] \in Digits

clean_text(text) ==
    IF text = <<>> THEN <<>>
    ELSE ReplaceChar(ReplaceChar(ReplaceChar(
             CollapseWs(Strip(text)), NBSP, " "), NDASH, "-"), MDASH, "-")

clean_number(value) ==
    IF value = <<>> THEN <<>>
    ELSE Strip(RemoveChars(clean_text(value), {"(", ")", "[", "]"}))

\* faulty variant of parse_percentage: no digit is needed for the suffix
parse_percentage_NoDigitNeeded(value) ==
    IF value = <<>> THEN <<>>
    ELSE LET cleaned == clean_text(value)
         IN  IF ~Contains(<<"%">>, cleaned)
                /\ \A i \in 1..Len(cleaned) : cleaned[i] \in Digits \cup {".", "-"}
             THEN cleaned \o <<"%">>
             ELSE cleaned

parse_percentage(value) ==
    IF value = <<>> THEN <<>>
    ELSE LET cleaned == clean_text(value)
         IN  IF ~Contains(<<"%">>, cleaned)
                /\ IsDigit(RemoveChars(RemoveChars(cleaned, {"."}), {"-"}))
             THEN cleaned \o <<"%">>
             ELSE cleaned

\* ------------------------------------------------------------------------
\* utils.py: quarter labels and ticker validation
\* ------------------------------------------------------------------------

\* Python's None where a text is expected
NoneText == <<"<None>">>

\* first index at or after i that holds no whitespace (Len(s) + 1 if none)
RECURSIVE WsRunEnd(_, _)
WsRunEnd(s, i) ==
    IF i <= Len(s) /\ s[i] \in Whitespace THEN WsRunEnd(s, i + 1) ELSE i

\* end index of a match of Q[1-4]\s+\d{4} (IGNORECASE) starting at i, else 0
MatchQuarterYear(s, i) ==
    IF i + 1 <= Len(s) /\ s[i] \in {"Q", "q"} /\ s[i + 1] \in {"1", "2", "3", "4"}
    THEN LET d == WsRunEnd(s, i + 2)
         IN  IF d > i + 2 /\ d + 3 <= Len(s) /\ \A k \in d..(d + 3) : s[k] \in Digits
             THEN d + 3
             ELSE 0
    ELSE 0

\* end index of a match of \d{4}\s+Q[1-4] (IGNORECASE) starting at i, else 0
MatchYearQuarter(s, i) ==
    IF i + 3 <= Len(s) /\ \A k \in i..(i + 3) : s[k] \in Digits
    THEN LET q == WsRunEnd(s, i + 4)
         IN  IF q > i + 4 /\ q + 1 <= Len(s) /\ s[q] \in {"Q", "q"}
                /\ s[q + 1] \in {"1", "2", "3", "4"}
             THEN q + 1
             ELSE 0
    ELSE 0

extract_quarter_from_text(text) ==
    IF text = <<>> THEN NoneText
    ELSE LET m1 == {i \in 1..Len(text) : MatchQuarterYear(text, i) > 0}
             m2 == {i \in 1..Len(text) : MatchYearQuarter(text, i) > 0}
         IN  IF m1 # {}
             THEN LET i == CHOOSE i \in m1 : \A j \in m1 : i <= j
                  IN  SubSeq(text, i, MatchQuarterYear(text, i))
             ELSE IF m2 # {}
             THEN LET i == CHOOSE i \in m2 : \A j \in m2 : i <= j
                      e == MatchYearQuarter(text, i)
                  IN  <<"Q", text[e], " ">> \o SubSeq(text, i, i + 3)
             ELSE NoneText

\* faulty variant of TickerPattern: six letters are accepted
TickerPattern_SixLetters(t) ==
    /\ Len(t) >= 1
    /\ Len(t) <= 6
    /\ \A i \in 1..Len(t) : \E k \in 1..26 : UpperLetters[k] = t[i]

\* re.match(r'^[A-Z]{1,5}$', t)
TickerPattern(t) ==
    /\ Len(t) >= 1
    /\ Len(t) <= 5
    /\ \A i \in 1..Len(t) : \E k \in 1..26 : UpperLetters[k] = t[i]

\* validate_ticker: [ok |-> the ValueError was not raised, value |-> the result]
validate_ticker(ticker) ==
    IF ticker = <<>> THEN [ok |-> FALSE, value |-> <<>>]
    ELSE LET t == Upper(Strip(ticker))
         IN  IF TickerPattern(t) THEN [ok |-> TRUE, value |-> t]
             ELSE [ok |-> FALSE, value |-> <<>>]

\* ------------------------------------------------------------------------
\* scraper.py / utils.py: tables, header mapping, records
\* A table is a sequence of rows (<tr>), a row a sequence of cells, a cell
\* [tag |-> "th" or "td", text |-> its get_text()].  A record (a Python
\* dict with string keys) is a function from its keys to texts.
\* ------------------------------------------------------------------------

KwInstitution == <<"i","n","s","t","i","t","u","t","i","o","n">>
KwName == <<"n","a","m","e">>
KwFund == <<"f","u","n","d">>
KwShares == <<"s","h","a","r","e","s">>
KwShare == <<"s","h","a","r","e">>
KwValue == <<"v","a","l","u","e">>
KwMarket == <<"m","a","r","k","e","t">>
KwPercent == <<"p","e","r","c","e","n","t">>
KwPct == <<"%">>
KwPortfolio == <<"p","o","r","t","f","o","l","i","o">>

\* ' '.join(texts)
RECURSIVE JoinSpace(_)
JoinSpace(texts) ==
    IF texts = <<>> THEN <<>>
    ELSE IF Len(texts) = 1 THEN texts[1]
         ELSE texts[1] \o <<" ">> \o JoinSpace(Tail(texts))

\* faulty variant of ColumnKey: the columns are counted from 1
ColumnKey_OneBased(i) ==
    CASE i = 0 -> "column_1"
      [] i = 1 -> "column_2"
      [] i = 2 -> "column_3"
      [] i = 3 -> "column_4"
      [] OTHER -> "column_n"

\* the f"column_{i}" key of the 0-based column i
ColumnKey(i) ==
    CASE i = 0 -> "column_0"
      [] i = 1 -> "column_1"
      [] i = 2 -> "column_2"
      [] i = 3 -> "column_3"
      [] i = 4 -> "column_4"
      [] OTHER -> "column_n"

\* faulty variant of HeaderField: the shares rule is tried before the name rule
HeaderField_SharesFirst(header) ==
    LET h == Lower(header)
    IN  IF \E kw \in {KwShares, KwShare} : Contains(kw, h) THEN "shares"
        ELSE IF \E kw \in {KwInstitution, KwName, KwFund} : Contains(kw, h) THEN "name"
        ELSE IF \E kw \in {KwValue, KwMarket} : Contains(kw, h) THEN "value"
        ELSE IF \E kw \in {KwPercent, KwPct, KwPortfolio} : Contains(kw, h)
             THEN "percent_portfolio"
        ELSE ""

\* one iteration of _create_header_mapping: the field of a header, or "" when
\* the header gets no entry in the mapping
HeaderField(header) ==
    LET h == Lower(header)
    IN  IF \E kw \in {KwInstitution, KwName, KwFund} : Contains(kw, h) THEN "name"
        ELSE IF \E kw \in {KwShares, KwShare} : Contains(kw, h) THEN "shares"
        ELSE IF \E kw \in {KwValue, KwMarket} : Contains(kw, h) THEN "value"
        ELSE IF \E kw \in {KwPercent, KwPct, KwPortfolio} : Contains(kw, h)
             THEN "percent_portfolio"
        ELSE ""

\* _create_header_mapping: the field of each header, "" where the mapping has
\* no entry for the column
_create_header_mapping(headers) == [p \in 1..Len(headers) |-> HeaderField(headers[p])]

\* header_mapping.get(i, f"column_{i}") for the 1-based position p (i = p - 1)
FieldName(header_mapping, p) ==
    IF header_mapping[p] # "" THEN header_mapping[p] ELSE ColumnKey(p - 1)

\* the texts of the cells of a row, cleaned
CellTexts(row) == [i \in 1..Len(row) |-> clean_text(row[i].text)]

\* the row_data dict built from the cells 1..n of a row (later cells
\* overwrite); header_mapping has one entry per header
RECURSIVE RowData(_, _, _)
RowData(header_mapping, row, n) ==
    IF n = 0 THEN <<>>
    ELSE LET prev == RowData(header_mapping, row, n - 1)
             cell_text == clean_text(row[n].text)
         IN  IF n <= Len(header_mapping) /\ cell_text # <<>>
             THEN LET field_name == FieldName(header_mapping, n)
                  IN  [k \in (DOMAIN prev) \cup {field_name} |->
                          IF k = field_name THEN cell_text ELSE prev[k]]
             ELSE prev

\* the `len(cells) >= 3` test of _parse_holdings_table
MinColumns == 3

\* faulty variant of RowHasEnoughCells: two cells are enough
RowHasEnoughCells_Two(row) == Len(row) >= 2

RowHasEnoughCells(row) == Len(row) >= MinColumns

\* faulty variant of RowKept: any non-empty row_data is kept
RowKept_AnyData(row_data) == row_data # <<>>

\* the `row_data and 'name' in row_data` test of _parse_holdings_table
RowKept(row_data) == row_data # <<>> /\ "name" \in DOMAIN row_data

\* the records of the data rows i..Len(rows) of a table
RECURSIVE ParseRows(_, _, _)
ParseRows(header_mapping, rows, i) ==
    IF i > Len(rows) THEN <<>>
    ELSE LET row_data == RowData(header_mapping, rows[i], Len(rows[i]))
         IN  (IF RowHasEnoughCells(rows[i]) /\ RowKept(row_data)
              THEN <<row_data>> ELSE <<>>)
             \o ParseRows(header_mapping, rows, i + 1)

\* index of the first data row: rows[1:] in the code
FirstDataRow == 2

_parse_holdings_table(table) ==
    IF table = <<>> THEN <<>>
    ELSE LET headers == CellTexts(table[1])
             header_mapping == _create_header_mapping(headers)
         IN  ParseRows(header_mapping, table, FirstDataRow)

\* the key under which format_holdings_data stores the field of key k (the
\* keys the table parser produces are lower-case already)
FormatKey(k) ==
    IF k \in {"name", "institution", "institution_name"} THEN "name"
    ELSE IF k \in {"shares", "shares_held"} THEN "shares"
    ELSE IF k \in {"value", "market_value", "total_value"} THEN "value"
    ELSE IF k \in {"percent", "percentage", "percent_portfolio", "% of portfolio"}
         THEN "percent_portfolio"
    ELSE k

\* faulty variant of FormatValue: a percentage is cleaned like any other text
FormatValue_PercentAsText(k, v) ==
    IF FormatKey(k) = "name" THEN clean_text(v)
    ELSE IF FormatKey(k) \in {"shares", "value"} THEN clean_number(v)
    ELSE clean_text(v)

\* the cleaner format_holdings_data applies to the value stored under key k
FormatValue(k, v) ==
    IF FormatKey(k) = "name" THEN clean_text(v)
    ELSE IF FormatKey(k) \in {"shares", "value"} THEN clean_number(v)
    ELSE IF FormatKey(k) = "percent_portfolio" THEN parse_percentage(v)
    ELSE clean_text(v)

\* one iteration of format_holdings_data's outer loop
FormatHolding(holding) ==
    LET keys == {FormatKey(k) : k \in DOMAIN holding}
    IN  [fk \in keys |->
            LET k == CHOOSE k \in DOMAIN holding : FormatKey(k) = fk
            IN  FormatValue(k, holding[k])]

RECURSIVE format_holdings_data(_)
format_holdings_data(holdings_list) ==
    IF holdings_list = <<>> THEN <<>>
    ELSE LET formatted_holding == FormatHolding(Head(holdings_list))
         IN  (IF DOMAIN formatted_holding # {} THEN <<formatted_holding>> ELSE <<>>)
             \o format_holdings_data(Tail(holdings_list))

\* table.find_all('th'): the texts of the th cells of a table, cleaned
RECURSIVE ThTexts(_)
ThTexts(table) ==
    IF table = <<>> THEN <<>>
    ELSE CellTexts(SelectSeq(Head(table), LAMBDA c : c.tag = "th"))
         \o ThTexts(Tail(table))

\* the header test of scrape_current_holdings
TableQualifies(table) ==
    LET joined == Lower(JoinSpace(ThTexts(table)))
    IN  \E kw \in {KwInstitution, KwShares, KwValue, KwPortfolio} : Contains(kw, joined)

\* faulty variant of ScanTables: the first table with a holdings header ends the
\* loop, whatever it yields
RECURSIVE ScanTables_FirstMatchOnly(_)
ScanTables_FirstMatchOnly(tables) ==
    IF tables = <<>> THEN <<>>
    ELSE IF TableQualifies(Head(tables))
         THEN _parse_holdings_table(Head(tables))
         ELSE ScanTables_FirstMatchOnly(Tail(tables))

\* the loop over the tables: the value of `holdings` when the loop ends
RECURSIVE ScanTables(_)
ScanTables(tables) ==
    IF tables = <<>> THEN <<>>
    ELSE IF TableQualifies(Head(tables)) /\ _parse_holdings_table(Head(tables)) # <<>>
         THEN _parse_holdings_table(Head(tables))
         ELSE ScanTables(Tail(tables))

\* the div-based fallback appends nothing to its list
\* faulty variant of _scrape_holdings_alternative_method: a record is made up
\* from the text of a div container
_scrape_holdings_alternative_method_Guess == <<[name |-> <<"F", "u", "n", "d">>]>>

_scrape_holdings_alternative_method == <<>>

\* scrape_current_holdings on a page snapshot with the given tables
CurrentHoldingsOf(tables) ==
    LET found == ScanTables(tables)
        holdings == IF found = <<>> THEN _scrape_holdings_alternative_method ELSE found
    IN  format_holdings_data(holdings)

\* ------------------------------------------------------------------------
\* Inputs: the texts, tables, sections and tabs the runs are checked on
\* ------------------------------------------------------------------------

TxInstitution == <<"I","n","s","t","i","t","u","t","i","o","n">>
TxSharesHeld == <<"S","h","a","r","e","s"," ","H","e","l","d">>
TxPctPortfolio == <<"%"," ","o","f"," ","P","o","r","t","f","o","l","i","o">>
TxRank == <<"R","a","n","k">>
TxVanguard == <<"V","a","n","g","u","a","r","d">>
TxShares == <<"1","0",",","0","0","0">>
TxPct == <<"5",".","2">>
TxBlank == <<" ", NBSP>>

Th(t) == [tag |-> "th", text |-> t]
Td(t) == [tag |-> "td", text |-> t]

HeaderRow == <<Th(TxInstitution), Th(TxSharesHeld), Th(TxPctPortfolio)>>

\* a holdings table: one full row, one row with a blank institution cell
TableGood ==
    <<HeaderRow,
      <<Td(TxVanguard), Td(TxShares), Td(TxPct)>>,
      <<Td(TxBlank), Td(TxShares), Td(TxPct)>>>>

\* a holdings table whose only data row has two cells
TableShort == <<HeaderRow, <<Td(TxVanguard), Td(TxShares)>>>>

\* a holdings table whose only data row has a blank institution cell
TableNoName == <<HeaderRow, <<Td(TxBlank), Td(TxShares), Td(TxPct)>>>>

\* a table with no holdings header
TableOther ==
    <<<<Th(TxRank), Th(TxRank), Th(TxRank)>>,
      <<Td(TxVanguard), Td(TxShares), Td(TxPct)>>>>

TablePool == {TableGood, TableShort, TableNoName, TableOther}

\* the sequences of at most n elements of S
SeqsUpTo(S, n) == UNION {[1..k -> S] : k \in 0..n}

\* the <table> elements of one page snapshot
PageTables == SeqsUpTo(TablePool, MaxTables)

\* what scrape_current_holdings can return on the page snapshots
CurrentHoldingsResults == {CurrentHoldingsOf(tables) : tables \in PageTables}

TitleStock == <<"A","A","P","L"," ","I","n","s","i","d","e","r","s">>
Title404 == <<"E","r","r","o","r"," ","4","0","4">>
TitleNotFound == <<"P","a","g","e"," ","N","o","t"," ","F","o","u","n","d">>
TitleNotFoundUpper == <<"N","O","T"," ","F","O","U","N","D">>

TitlePool == {TitleStock, Title404, TitleNotFound, TitleNotFoundUpper}

TxQ1 == <<"Q","1"," ","2","0","2","4"," ","H","o","l","d","i","n","g","s">>
TxQ4 == <<"2","0","2","3"," ","Q","4">>
TxTrend == <<"T","r","e","n","d","s">>
TxQuarterly == <<"Q","u","a","r","t","e","r","l","y">>

\* a class-matched container: its get_text() and its <table> elements
Section(text, tables) == [text |-> text, tables |-> tables]

SectionPool ==
    { Section(TxQ1, <<TableGood, TableGood, TableGood>>),
      Section(TxQ4, <<TableGood, TableShort>>),
      Section(TxQ1, <<TableNoName>>),
      Section(TxTrend, <<TableGood>>) }

\* the text of a quarter tab element
TabTexts == {TxQ1, TxQuarterly}

\* args.ticker
TickerArgs ==
    { <<"A","A","P","L">>, <<" ","m","s","f","t">>, <<"A","1">>,
      <<"T","O","O","L","O","N","G">>, <<>> }

\* os.getenv(...) for USERNAME and PASSWORD
EnvValues == {NoneText, <<>>, <<"u">>}

OutputFormats == {"json", "csv", "both"}

\* ------------------------------------------------------------------------
\* scraper.py: historical sections
\* ------------------------------------------------------------------------

\* a QuarterlySnapshot dict
Snapshot(quarter, holdings) == [quarter |-> quarter, holdings |-> holdings]

\* `if quarter:` on the result of extract_quarter_from_text
Truthy(text) == text # NoneText /\ text # <<>>

\* the loop of _parse_historical_section over the tables i.. of a section
RECURSIVE SectionQuarters(_, _)
SectionQuarters(section, i) ==
    IF i > Len(section.tables) THEN <<>>
    ELSE LET quarter == extract_quarter_from_text(section.text)
             holdings == _parse_holdings_table(section.tables[i])
         IN  (IF Truthy(quarter) /\ holdings # <<>>
              THEN <<Snapshot(quarter, holdings)>> ELSE <<>>)
             \o SectionQuarters(section, i + 1)

_parse_historical_section(section) == SectionQuarters(section, 1)

\* the 8 of historical_data[:8]
MaxQuarters == 8

\* the 8 of tab_elements[:8]
TabLimit == 8

\* seq[:n]
Take(seq, n) == SubSeq(seq, 1, IF Len(seq) < n THEN Len(seq) ELSE n)

\* faulty variant of LimitQuarters: the list is returned without the slice
LimitQuarters_NoSlice(historical_data) == historical_data

\* historical_data[:8] in scrape_historical_holdings
LimitQuarters(historical_data) == Take(historical_data, MaxQuarters)

\* faulty variant of TabsVisited: every element found is visited
TabsVisited_NoLimit(found) == found

\* len(tab_elements[:8])
TabsVisited(found) == IF found < TabLimit THEN found ELSE TabLimit

\* _parse_historical_section 216-237 with its errors: one raised by the
\* container (find_all, get_text) is caught at 234 and the container gives
\* nothing; one raised while a table is parsed is caught in _parse_holdings_table
\* (128-129, here before a row was stored) and the other tables are still read
SectionQuarterData(raises, section) ==
    IF raises = "section" THEN <<>>
    ELSE IF raises = "table" /\ section.tables # <<>>
    THEN _parse_historical_section(Section(section.text, Tail(section.tables)))
    ELSE _parse_historical_section(section)

\* _scrape_historical_from_tabs 252-273, one tab: the snapshot appended, if
\* any; holdings is what scrape_current_holdings returned on the updated page
TabQuarterData(clickRaises, tabText, holdings) ==
    LET quarter == extract_quarter_from_text(tabText)
    IN  IF ~clickRaises /\ Truthy(quarter) /\ holdings # <<>>
        THEN <<Snapshot(quarter, holdings)>>
        ELSE <<>>

\* the loop of _scrape_historical_from_tabs over the elements i..
RECURSIVE TabsLoop(_, _)
TabsLoop(tabs, i) ==
    IF i > Len(tabs) THEN <<>>
    ELSE TabQuarterData(tabs[i].clickRaises, tabs[i].text, tabs[i].holdings)
         \o TabsLoop(tabs, i + 1)

\* _scrape_historical_from_tabs on the elements the XPath found, in DOM order:
\* the positions of the elements clicked and the snapshots collected
_scrape_historical_from_tabs(tab_elements) ==
    LET visited == SubSeq(tab_elements, 1, TabsVisited(Len(tab_elements)))
    IN  [clicked |-> [i \in 1..Len(visited) |-> i],
         data |-> TabsLoop(visited, 1)]

\* the loop of scrape_historical_holdings over the containers i..
RECURSIVE SectionsLoop(_, _)
SectionsLoop(sections, i) ==
    IF i > Len(sections) THEN <<>>
    ELSE _parse_historical_section(sections[i]) \o SectionsLoop(sections, i + 1)

\* scrape_historical_holdings on a page with these containers and tab
\* elements: the positions of the tabs clicked and the list returned
scrape_historical_holdings(sections, tab_elements) ==
    LET found == SectionsLoop(sections, 1)
        tabs == IF found = <<>>
                THEN _scrape_historical_from_tabs(tab_elements)
                ELSE [clicked |-> <<>>, data |-> <<>>]
    IN  [clicked |-> tabs.clicked,
         data |-> LimitQuarters(IF found = <<>> THEN tabs.data ELSE found)]

\* faulty variant of NotFoundTitle: the "not found" test is case-sensitive
NotFoundTitle_CaseSensitive(title) ==
    \/ Contains(<<"4","0","4">>, title)
    \/ Contains(<<"n","o","t"," ","f","o","u","n","d">>, title)

\* the title test of navigate_to_stock_page
NotFoundTitle(title) ==
    \/ Contains(<<"4","0","4">>, title)
    \/ Contains(<<"n","o","t"," ","f","o","u","n","d">>, Lower(title))

\* faulty variant of Falsy: only a missing variable counts, an empty one passes
Falsy_NoneOnly(text) == text = NoneText

\* `not self.username`: None and '' are false
Falsy(text) == text = NoneText \/ text = <<>>

\* 'login' in current_url.lower()
UrlHasLogin(url) == Contains(<<"l","o","g","i","n">>, Lower(url))

\* the XPath //a[contains(@href, "logout") or contains(text(), "Logout")]
\* finds an element among the links of the page
LogoutLink(links) ==
    \E l \in links :
        \/ Contains(<<"l","o","g","o","u","t">>, l.href)
        \/ Contains(<<"L","o","g","o","u","t">>, l.text)

\* faulty variant of is_logged_in: the logout link is not looked for
is_logged_in_UrlOnly(urlRaises, urlHasLogin, findRaises, logoutLink) ==
    IF urlRaises THEN FALSE
    ELSE ~urlHasLogin

\* is_logged_in: the URL test, then the logout link; any error gives False
is_logged_in(urlRaises, urlHasLogin, findRaises, logoutLink) ==
    IF urlRaises THEN FALSE
    ELSE IF ~urlHasLogin THEN TRUE
    ELSE IF findRaises THEN FALSE
    ELSE logoutLink

\* the faults login() catches before the success check
LoginFaults ==
    {"get_error", "email_timeout", "password_timeout", "submit_timeout", "element_error"}

\* the value login() returns: False from each except clause, else the check
LoginOutcome(fault, logged_in) == IF fault # "none" THEN FALSE ELSE logged_in

\* an <a> element: its text and its href
Link(text, href) == [text |-> text, href |-> href]

\* the XPath //a[contains(text(), 'Institutional') or contains(text(),
\* 'Holdings')] finds an element among the links of the page
InstitutionalLink(links) ==
    \E l \in links :
        \/ Contains(<<"I","n","s","t","i","t","u","t","i","o","n","a","l">>, l.text)
        \/ Contains(<<"H","o","l","d","i","n","g","s">>, l.text)

\* navigate_to_stock_page 36-51: the fallback URL is requested when the primary
\* page passed the title test and find_element raised NoSuchElementException
FallbackLoaded(getRaises, pageTitle, links) ==
    ~getRaises /\ ~NotFoundTitle(pageTitle) /\ ~InstitutionalLink(links)

\* navigate_to_stock_page: the primary page is loaded, its title tested, then
\* the institutional link is clicked or the fallback URL loaded
navigate_to_stock_page(getRaises, pageTitle, stepRaises) ==
    IF getRaises THEN FALSE
    ELSE IF NotFoundTitle(pageTitle) THEN FALSE
    ELSE ~stepRaises

\* ------------------------------------------------------------------------
\* State
\* ------------------------------------------------------------------------

VARIABLES
    pc,              \* the statement of main() the run is at
    argTicker,       \* args.ticker
    outputFormat,    \* args.output_format
    envUser,         \* os.getenv('USERNAME')
    envPass,         \* os.getenv('PASSWORD')
    ticker,          \* the validated ticker
    login_handler,   \* TRUE once InsiderMonkeyLogin(...) has been constructed
    driver,          \* self.driver: "none", "open" or "quit"
    quitCalls,       \* number of driver.quit() calls
    networkUsed,     \* TRUE once a driver.get() has been issued
    loginDone,       \* login() has returned
    loginReturn,     \* the value login() returned
    loginCause,      \* the path login() took
    title,           \* driver.title after the primary page load
    navReturn,       \* the value navigate_to_stock_page returned
    result,          \* the dict scrape_all_data builds
    assembled,       \* scrape_all_data has returned
    historical_data, \* the list scrape_historical_holdings accumulates
    sectionsLeft,    \* class-matched containers still to parse
    tabsFound,       \* len(tab_elements)
    tabsLeft,        \* elements of tab_elements[:8] still to visit
    quarterErrors,   \* errors caught while one quarter was extracted
    stages,          \* the pipeline stages started, in order
    warned,          \* the "No data found" warning was logged
    attempted,       \* the exports whose save function was called
    failed,          \* the exports whose save function returned False
    files,           \* the output files created
    csvWrites,       \* the to_csv calls of save_to_csv, each with its outcome
    exitStatus,      \* the process exit status, -1 while running
    interruptedAt,   \* the statement a KeyboardInterrupt arrived at
    tbl,             \* table parsing specification: the input table
    parsed,          \* table parsing specification: the records parsed
    input,           \* function specifications: the input (a text, a page)
    once,            \* function specifications: the function's result
    twice            \* function specifications: the result on that result

vars ==
    <<pc, argTicker, outputFormat, envUser, envPass, ticker, login_handler, driver,
      quitCalls, networkUsed, loginDone, loginReturn, loginCause, title, navReturn,
      result, assembled, historical_data, sectionsLeft, tabsFound, tabsLeft,
      quarterErrors, stages, warned, attempted, failed, files, csvWrites, exitStatus, interruptedAt, tbl,
      parsed,
      input, once, twice>>

\* the variables of the configuration, fixed by the command line and environment
configVars == <<argTicker, outputFormat, envUser, envPass>>

\* the variables of the browser session
sessionVars == <<login_handler, driver, quitCalls, networkUsed>>

loginVars == <<loginDone, loginReturn, loginCause>>

scrapeVars ==
    <<title, navReturn, result, assembled, historical_data, sectionsLeft, tabsFound,
      tabsLeft, quarterErrors>>

exportVars == <<warned, attempted, failed, files, csvWrites>>

tableVars == <<tbl, parsed>>

textVars == <<input, once, twice>>

EmptyResult(t) ==
    [ticker |-> t, current_holdings |-> <<>>, historical_holdings |-> <<>>]

\* the state every specification starts from, but for pc and its inputs
Blank ==
    /\ ticker = <<>>
    /\ login_handler = FALSE
    /\ driver = "none"
    /\ quitCalls = 0
    /\ networkUsed = FALSE
    /\ loginDone = FALSE
    /\ loginReturn = FALSE
    /\ loginCause = "none"
    /\ title = NoneText
    /\ navReturn = FALSE
    /\ result = EmptyResult(<<>>)
    /\ assembled = FALSE
    /\ historical_data = <<>>
    /\ sectionsLeft = 0
    /\ tabsFound = 0
    /\ tabsLeft = 0
    /\ quarterErrors = 0
    /\ stages = <<>>
    /\ warned = FALSE
    /\ attempted = {}
    /\ failed = {}
    /\ files = {}
    /\ csvWrites = <<>>
    /\ exitStatus = -1
    /\ interruptedAt = "none"
    /\ parsed = <<>>
    /\ once = <<>>
    /\ twice = <<>>

Init ==
    /\ pc = "validate"
    /\ argTicker \in TickerArgs
    /\ outputFormat \in OutputFormats
    /\ envUser \in EnvValues
    /\ envPass \in EnvValues
    /\ tbl = <<>>
    /\ input = <<>>
    /\ Blank

\* faulty variant of ExitInTry: the exit status is 0
ExitInTry_StatusZero ==
    /\ exitStatus' = 0
    /\ pc' = "finally"

\* sys.exit(1) inside the try block of main(): SystemExit runs the finally
ExitInTry ==
    /\ exitStatus' = 1
    /\ pc' = "finally"

\* a stage is recorded when it starts for the first time
Started(stage) ==
    IF \E i \in 1..Len(stages) : stages[i] = stage THEN stages ELSE Append(stages, stage)

\* ------------------------------------------------------------------------
\* main(): configuration, session, login
\* ------------------------------------------------------------------------

\* main.py 102-107: validate the ticker, exit(1) on ValueError
MainValidateTicker ==
    /\ pc = "validate"
    /\ IF validate_ticker(argTicker).ok
       THEN /\ ticker' = validate_ticker(argTicker).value
            /\ pc' = "construct"
            /\ UNCHANGED exitStatus
       ELSE /\ exitStatus' = 1
            /\ pc' = "exited"
            /\ UNCHANGED ticker
    /\ UNCHANGED <<configVars, sessionVars, loginVars, scrapeVars, stages, exportVars,
                   interruptedAt, tableVars,
                   textVars>>

\* main.py 127 and InsiderMonkeyLogin.__init__: ValueError without credentials
MainConstructLogin ==
    /\ pc = "construct"
    /\ IF Falsy(envUser) \/ Falsy(envPass)
       THEN /\ ExitInTry
            /\ UNCHANGED login_handler
       ELSE /\ login_handler' = TRUE
            /\ pc' = "setup"
            /\ UNCHANGED exitStatus
    /\ UNCHANGED <<configVars, ticker, driver, quitCalls, networkUsed, loginVars,
                   scrapeVars, stages, exportVars, interruptedAt, tableVars,
                   textVars>>

\* main.py 128 and setup_driver: the driver is created, or both attempts fail
MainSetupDriver ==
    /\ pc = "setup"
    /\ \E created \in BOOLEAN :
          IF created
          THEN /\ driver' = "open"
               /\ pc' = "login"
               /\ UNCHANGED exitStatus
          ELSE /\ ExitInTry
               /\ UNCHANGED driver
    /\ UNCHANGED <<configVars, ticker, login_handler, quitCalls, networkUsed, loginVars,
                   scrapeVars, stages, exportVars, interruptedAt, tableVars,
                   textVars>>

\* login(): load the login page, fill the form, submit, check
Login ==
    /\ pc = "login"
    /\ \E fault \in LoginFaults \cup {"none"},
          urlRaises \in BOOLEAN, urlHasLogin \in BOOLEAN,
          findRaises \in BOOLEAN, logoutLink \in BOOLEAN :
          LET logged_in == is_logged_in(urlRaises, urlHasLogin, findRaises, logoutLink)
          IN  /\ loginReturn' = LoginOutcome(fault, logged_in)
              /\ loginCause' =
                    IF fault # "none" THEN fault
                    ELSE IF logged_in THEN "ok"
                    ELSE IF urlRaises \/ findRaises THEN "check_error"
                    ELSE "rejected"
    /\ loginDone' = TRUE
    /\ networkUsed' = TRUE
    /\ stages' = Started("login")
    /\ pc' = "login_check"
    /\ UNCHANGED <<configVars, ticker, login_handler, driver, quitCalls, scrapeVars,
                   exportVars, exitStatus, interruptedAt, tableVars,
                   textVars>>

\* faulty variant of MainLoginCheck: the value login() returned is not tested
MainLoginCheck_NoTest ==
    /\ pc = "login_check"
    /\ pc' = "navigate"
    /\ UNCHANGED <<configVars, ticker, sessionVars, loginVars, scrapeVars, stages,
                   exportVars, exitStatus, interruptedAt, tableVars,
                   textVars>>

\* main.py 130-132: exit(1) unless login() returned True
MainLoginCheck ==
    /\ pc = "login_check"
    /\ IF loginReturn
       THEN /\ pc' = "navigate"
            /\ UNCHANGED exitStatus
       ELSE ExitInTry
    /\ UNCHANGED <<configVars, ticker, sessionVars, loginVars, scrapeVars, stages,
                   exportVars, interruptedAt, tableVars,
                   textVars>>

\* ------------------------------------------------------------------------
\* scrape_all_data
\* ------------------------------------------------------------------------

\* scrape_all_data 282-291: build the result, navigate; return it when
\* navigation reports failure
Navigate ==
    /\ pc = "navigate"
    /\ \E getRaises \in BOOLEAN, pageTitle \in TitlePool, stepRaises \in BOOLEAN :
          /\ title' = IF getRaises THEN NoneText ELSE pageTitle
          /\ navReturn' = navigate_to_stock_page(getRaises, pageTitle, stepRaises)
    /\ result' = EmptyResult(Upper(ticker))
    /\ networkUsed' = TRUE
    /\ stages' = Started("navigate")
    /\ IF navReturn'
       THEN /\ pc' = "current"
            /\ UNCHANGED assembled
       ELSE /\ pc' = "check_empty"
            /\ assembled' = TRUE
    /\ UNCHANGED <<configVars, ticker, login_handler, driver, quitCalls, loginVars,
                   historical_data, sectionsLeft, tabsFound, tabsLeft, quarterErrors,
                   exportVars,
                   exitStatus, interruptedAt, tableVars,
                   textVars>>

\* scrape_all_data 294-295: scrape_current_holdings on the loaded page; an
\* error inside it is logged and gives []
ScrapeCurrent ==
    /\ pc = "current"
    /\ \E raises \in BOOLEAN, scraped \in CurrentHoldingsResults :
          result' = [result EXCEPT !.current_holdings =
                        IF raises THEN <<>> ELSE scraped]
    /\ stages' = Started("current")
    /\ pc' = "hist_start"
    /\ UNCHANGED <<configVars, ticker, sessionVars, loginVars, title, navReturn,
                   assembled, historical_data, sectionsLeft, tabsFound, tabsLeft,
                   quarterErrors,
                   exportVars, exitStatus, interruptedAt, tableVars,
                   textVars>>

\* scrape_historical_holdings 180-192: parse the page, find the containers;
\* an error is logged and [] returned
HistStart ==
    /\ pc = "hist_start"
    /\ historical_data' = <<>>
    /\ stages' = Started("historical")
    /\ \E raises \in BOOLEAN, n \in 0..MaxSections :
          IF raises
          THEN /\ result' = [result EXCEPT !.historical_holdings = <<>>]
               /\ assembled' = TRUE
               /\ pc' = "check_empty"
               /\ UNCHANGED sectionsLeft
          ELSE /\ sectionsLeft' = n
               /\ pc' = "hist_sections"
               /\ UNCHANGED <<result, assembled>>
    /\ UNCHANGED <<configVars, ticker, sessionVars, loginVars, title, navReturn,
                   tabsFound, tabsLeft, quarterErrors, exportVars, exitStatus, interruptedAt,
                   tableVars,
                   textVars>>

\* scrape_historical_holdings 194-196: one container of the loop
HistSection ==
    /\ pc = "hist_sections"
    /\ sectionsLeft > 0
    /\ \E raises \in {"none", "section", "table"}, section \in SectionPool :
          /\ historical_data' =
                historical_data \o SectionQuarterData(raises, section)
          /\ quarterErrors' = IF raises = "none" THEN quarterErrors
                                ELSE quarterErrors + 1
    /\ sectionsLeft' = sectionsLeft - 1
    /\ UNCHANGED <<pc, configVars, ticker, sessionVars, loginVars, title, navReturn,
                   result, assembled, tabsFound, tabsLeft, stages, exportVars,
                   exitStatus, interruptedAt, tableVars,
                   textVars>>

\* scrape_historical_holdings 198-200: the tab path runs when nothing was found
HistSectionsDone ==
    /\ pc = "hist_sections"
    /\ sectionsLeft = 0
    /\ pc' = IF historical_data = <<>> THEN "hist_tabs_find" ELSE "hist_return"
    /\ UNCHANGED <<configVars, ticker, sessionVars, loginVars, scrapeVars, stages,
                   exportVars, exitStatus, interruptedAt, tableVars,
                   textVars>>

\* _scrape_historical_from_tabs 243-251: find the tab elements, keep 8; an
\* error is logged and the empty list returned
HistFindTabs ==
    /\ pc = "hist_tabs_find"
    /\ \E raises \in BOOLEAN, n \in 0..MaxTabs :
          /\ tabsFound' = IF raises THEN 0 ELSE n
          /\ tabsLeft' = IF raises THEN 0 ELSE TabsVisited(n)
    /\ pc' = "hist_tabs"
    /\ UNCHANGED <<configVars, ticker, sessionVars, loginVars, title, navReturn,
                   result, assembled, historical_data, sectionsLeft, quarterErrors, stages,
                   exportVars, exitStatus, interruptedAt, tableVars,
                   textVars>>

\* faulty variant of HistTab: an error in one tab ends the loop over the tabs
HistTab_ErrorEndsLoop ==
    /\ pc = "hist_tabs"
    /\ tabsLeft > 0
    /\ \E clickRaises \in BOOLEAN, text \in TabTexts,
          scrapeRaises \in BOOLEAN, scraped \in CurrentHoldingsResults :
          LET holdings == IF scrapeRaises THEN <<>> ELSE scraped
          IN  /\ historical_data' =
                    historical_data \o TabQuarterData(clickRaises, text, holdings)
              /\ quarterErrors' = IF clickRaises \/ scrapeRaises
                                    THEN quarterErrors + 1 ELSE quarterErrors
              /\ tabsLeft' = IF clickRaises \/ scrapeRaises THEN 0 ELSE tabsLeft - 1
    /\ UNCHANGED <<pc, configVars, ticker, sessionVars, loginVars, title, navReturn,
                   result, assembled, sectionsLeft, tabsFound, stages, exportVars,
                   exitStatus, interruptedAt, tableVars,
                   textVars>>

\* _scrape_historical_from_tabs 251-273: click one tab, read its label, scrape
\* the page again; an error skips the tab
HistTab ==
    /\ pc = "hist_tabs"
    /\ tabsLeft > 0
    /\ \E clickRaises \in BOOLEAN, text \in TabTexts,
          scrapeRaises \in BOOLEAN, scraped \in CurrentHoldingsResults :
          LET holdings == IF scrapeRaises THEN <<>> ELSE scraped
          IN  /\ historical_data' =
                    historical_data \o TabQuarterData(clickRaises, text, holdings)
              /\ quarterErrors' = IF clickRaises \/ scrapeRaises
                                    THEN quarterErrors + 1 ELSE quarterErrors
    /\ tabsLeft' = tabsLeft - 1
    /\ UNCHANGED <<pc, configVars, ticker, sessionVars, loginVars, title, navReturn,
                   result, assembled, sectionsLeft, tabsFound, stages, exportVars,
                   exitStatus, interruptedAt, tableVars,
                   textVars>>

HistTabsDone ==
    /\ pc = "hist_tabs"
    /\ tabsLeft = 0
    /\ pc' = "hist_return"
    /\ UNCHANGED <<configVars, ticker, sessionVars, loginVars, scrapeVars, stages,
                   exportVars, exitStatus, interruptedAt, tableVars,
                   textVars>>

\* faulty variant of HistReturn: the records scraped for the last quarter tab
\* replace the current holdings of the result
HistReturn_StoresTabScrape ==
    /\ pc = "hist_return"
    /\ result' = [result EXCEPT
                    !.historical_holdings = LimitQuarters(historical_data),
                    !.current_holdings =
                        IF tabsFound > 0 /\ historical_data # <<>>
                        THEN historical_data[Len(historical_data)].holdings
                        ELSE @]
    /\ assembled' = TRUE
    /\ pc' = "check_empty"
    /\ UNCHANGED <<configVars, ticker, sessionVars, loginVars, title, navReturn,
                   historical_data, sectionsLeft, tabsFound, tabsLeft,
                   quarterErrors, stages,
                   exportVars, exitStatus, interruptedAt, tableVars,
                   textVars>>

\* scrape_historical_holdings 202-206 and scrape_all_data 299-306: truncate,
\* store, return the result
HistReturn ==
    /\ pc = "hist_return"
    /\ result' = [result EXCEPT !.historical_holdings = LimitQuarters(historical_data)]
    /\ assembled' = TRUE
    /\ pc' = "check_empty"
    /\ UNCHANGED <<configVars, ticker, sessionVars, loginVars, title, navReturn,
                   historical_data, sectionsLeft, tabsFound, tabsLeft,
                   quarterErrors, stages,
                   exportVars, exitStatus, interruptedAt, tableVars,
                   textVars>>

\* ------------------------------------------------------------------------
\* main(): warning, export, cleanup
\* ------------------------------------------------------------------------

\* the test of main.py 141
NoData(data) == data.current_holdings = <<>> /\ data.historical_holdings = <<>>

\* faulty variant of MainCheckEmpty: an empty result ends the run with exit(1)
MainCheckEmpty_Fatal ==
    /\ pc = "check_empty"
    /\ warned' = NoData(result)
    /\ IF NoData(result)
       THEN ExitInTry
       ELSE /\ pc' = "export_json"
            /\ UNCHANGED exitStatus
    /\ UNCHANGED <<configVars, ticker, sessionVars, loginVars, scrapeVars, stages,
                   attempted, failed, files, csvWrites, interruptedAt, tableVars,
                   textVars>>

\* main.py 141-142: an empty result is logged as a warning
MainCheckEmpty ==
    /\ pc = "check_empty"
    /\ warned' = NoData(result)
    /\ pc' = "export_json"
    /\ UNCHANGED <<configVars, ticker, sessionVars, loginVars, scrapeVars, stages,
                   attempted, failed, files, csvWrites, exitStatus, interruptedAt,
                   tableVars,
                   textVars>>

\* save_to_json: the file is written, or the error is logged and False
\* returned (the file may have been created by open() before the error)
save_to_json(writeFails, created) ==
    [ok |-> ~writeFails,
     files |-> IF ~writeFails \/ created THEN {"json"} ELSE {}]

\* save_to_csv: the current-holdings file, then the historical one, each only
\* for a non-empty collection; the first error is logged and False returned
save_to_csv(data, currentFails, historicalFails) ==
    LET wantCurrent == data.current_holdings # <<>>
        wantHistorical == data.historical_holdings # <<>>
        current == [file |-> "csv_current", ok |-> ~currentFails]
        historical == [file |-> "csv_historical", ok |-> ~historicalFails]
    IN  IF wantCurrent /\ currentFails
        THEN [ok |-> FALSE, files |-> {}, writes |-> <<current>>]
        ELSE IF wantHistorical /\ historicalFails
        THEN [ok |-> FALSE,
              files |-> IF wantCurrent THEN {"csv_current"} ELSE {},
              writes |-> (IF wantCurrent THEN <<current>> ELSE <<>>) \o <<historical>>]
        ELSE [ok |-> TRUE,
              files |-> (IF wantCurrent THEN {"csv_current"} ELSE {})
                        \cup (IF wantHistorical THEN {"csv_historical"} ELSE {}),
              writes |-> (IF wantCurrent THEN <<current>> ELSE <<>>)
                         \o (IF wantHistorical THEN <<historical>> ELSE <<>>)]

\* faulty variant of ExportJson: a failed JSON export ends the run
ExportJson_FailureAborts ==
    /\ pc = "export_json"
    /\ IF outputFormat \in {"json", "both"}
       THEN \E writeFails \in BOOLEAN, created \in BOOLEAN :
               LET saved == save_to_json(writeFails, created)
               IN  /\ attempted' = attempted \cup {"json"}
                   /\ failed' = IF saved.ok THEN failed ELSE failed \cup {"json"}
                   /\ files' = files \cup saved.files
                   /\ stages' = Started("export")
                   /\ IF saved.ok
                      THEN pc' = "export_csv" /\ exitStatus' = exitStatus
                      ELSE ExitInTry
       ELSE /\ UNCHANGED <<attempted, failed, files, stages, exitStatus>>
            /\ pc' = "export_csv"
    /\ csvWrites' = csvWrites
    /\ UNCHANGED <<configVars, ticker, sessionVars, loginVars, scrapeVars, warned,
                   interruptedAt, tableVars, textVars>>

\* main.py 147-152
ExportJson ==
    /\ pc = "export_json"
    /\ IF outputFormat \in {"json", "both"}
       THEN \E writeFails \in BOOLEAN, created \in BOOLEAN :
               LET saved == save_to_json(writeFails, created)
               IN  /\ attempted' = attempted \cup {"json"}
                   /\ failed' = IF saved.ok THEN failed ELSE failed \cup {"json"}
                   /\ files' = files \cup saved.files
                   /\ stages' = Started("export")
       ELSE UNCHANGED <<attempted, failed, files, stages>>
    /\ csvWrites' = csvWrites
    /\ pc' = "export_csv"
    /\ UNCHANGED <<configVars, ticker, sessionVars, loginVars, scrapeVars, warned,
                   exitStatus, interruptedAt, tableVars,
                   textVars>>

\* main.py 154-159
ExportCsv ==
    /\ pc = "export_csv"
    /\ IF outputFormat \in {"csv", "both"}
       THEN \E currentFails \in BOOLEAN, historicalFails \in BOOLEAN :
               LET saved == save_to_csv(result, currentFails, historicalFails)
               IN  /\ attempted' = attempted \cup {"csv"}
                   /\ failed' = IF saved.ok THEN failed ELSE failed \cup {"csv"}
                   /\ files' = files \cup saved.files
                   /\ csvWrites' = saved.writes
                   /\ stages' = Started("export")
       ELSE UNCHANGED <<attempted, failed, files, csvWrites, stages>>
    /\ pc' = "summary"
    /\ UNCHANGED <<configVars, ticker, sessionVars, loginVars, scrapeVars, warned,
                   exitStatus, interruptedAt, tableVars,
                   textVars>>

\* main.py 161-176: print the summary; the try block ends
MainSummary ==
    /\ pc = "summary"
    /\ pc' = "finally"
    /\ UNCHANGED <<configVars, ticker, sessionVars, loginVars, scrapeVars, stages,
                   exportVars, exitStatus, interruptedAt, tableVars,
                   textVars>>

\* the statements of the try block of main()
TryBlock ==
    {"construct", "setup", "login", "login_check", "navigate", "current",
     "hist_start", "hist_sections", "hist_tabs_find", "hist_tabs", "hist_return",
     "check_empty", "export_json", "export_csv", "summary"}

\* main.py 178-180: a KeyboardInterrupt inside the try block is logged, exit(1)
Interrupt ==
    /\ pc \in TryBlock
    /\ interruptedAt' = pc
    /\ ExitInTry
    /\ UNCHANGED <<configVars, ticker, sessionVars, loginVars, scrapeVars, stages,
                   exportVars, tableVars,
                   textVars>>

\* InsiderMonkeyLogin.close: quit the driver if there is one
CloseQuits == driver # "none"

\* faulty variant of FinallyCloses: close() is called on the normal path only
FinallyCloses_NormalPathOnly == login_handler /\ exitStatus = -1

\* whether the finally block calls login_handler.close()
FinallyCloses == login_handler

\* main.py 186-191: the finally block, then the process ends
MainFinally ==
    /\ pc = "finally"
    /\ IF FinallyCloses /\ CloseQuits
       THEN /\ driver' = "quit"
            /\ quitCalls' = quitCalls + 1
       ELSE UNCHANGED <<driver, quitCalls>>
    /\ exitStatus' = IF exitStatus = -1 THEN 0 ELSE exitStatus
    /\ pc' = "exited"
    /\ UNCHANGED <<configVars, ticker, login_handler, networkUsed, loginVars,
                   scrapeVars, stages, exportVars, interruptedAt, tableVars,
                   textVars>>

Next ==
    \/ MainValidateTicker
    \/ MainConstructLogin
    \/ MainSetupDriver
    \/ Login
    \/ MainLoginCheck
    \/ Navigate
    \/ ScrapeCurrent
    \/ HistStart
    \/ HistSection
    \/ HistSectionsDone
    \/ HistFindTabs
    \/ HistTab
    \/ HistTabsDone
    \/ HistReturn
    \/ MainCheckEmpty
    \/ ExportJson
    \/ ExportCsv
    \/ MainSummary
    \/ Interrupt
    \/ MainFinally

Spec == Init /\ [][Next]_vars

\* ------------------------------------------------------------------------
\* Table parsing on generated tables
\* ------------------------------------------------------------------------

\* the cells a generated data row is made of
DataCells == {Td(TxVanguard), Td(TxBlank)}

\* the data rows of 0..MaxCells cells: the first two cells vary, the cells
\* after them hold a share count
DataRows ==
    {[i \in 1..k |-> IF i <= 2 THEN f[i] ELSE Td(TxShares)] :
        k \in 0..MaxCells, f \in [1..2 -> DataCells]}

\* the first rows of the generated tables
HeaderRows ==
    { HeaderRow,
      <<Th(TxRank), Th(TxInstitution), Th(TxSharesHeld)>>,
      <<Th(TxInstitution)>>,
      <<>> }

\* the input is a table without rows, or a first row and some data rows
InitTable ==
    /\ pc = "table_input"
    /\ \/ tbl = <<>>
       \/ \E h \in HeaderRows, k \in 0..MaxRows :
             \E rows \in [1..k -> DataRows] : tbl = <<h>> \o rows
    /\ argTicker = <<>>
    /\ outputFormat = "json"
    /\ envUser = NoneText
    /\ envPass = NoneText
    /\ input = <<>>
    /\ Blank

\* _parse_holdings_table applied to the input table
ParseTable ==
    /\ pc = "table_input"
    /\ parsed' = _parse_holdings_table(tbl)
    /\ pc' = "table_parsed"
    /\ UNCHANGED <<configVars, ticker, sessionVars, loginVars, scrapeVars, stages,
                   exportVars, exitStatus, interruptedAt, tbl, textVars>>

NextTable == ParseTable

SpecTable == InitTable /\ [][NextTable]_vars

\* ------------------------------------------------------------------------
\* Ticker validation on generated texts
\* ------------------------------------------------------------------------

\* longest generated ticker text
MaxTickerLen == 6

\* an upper-case letter, a lower-case letter, a blank and a digit
TickerAlphabet == {"A", "b", " ", "1"}

\* the generated --ticker values, and the ones of the pipeline
TickerTexts ==
    SeqsUpTo(TickerAlphabet, MaxTickerLen) \cup TickerArgs
        \cup {<<"B","R","K",".","B">>}

InitTicker ==
    /\ pc = "ticker_input"
    /\ input \in TickerTexts
    /\ argTicker = <<>>
    /\ outputFormat = "json"
    /\ envUser = NoneText
    /\ envPass = NoneText
    /\ tbl = <<>>
    /\ Blank

\* validate_ticker applied to the input
ValidateTicker ==
    /\ pc = "ticker_input"
    /\ once' = validate_ticker(input)
    /\ pc' = "ticker_validated"
    /\ UNCHANGED <<configVars, ticker, sessionVars, loginVars, scrapeVars, stages,
                   exportVars, exitStatus, interruptedAt, tableVars, input, twice>>

\* validate_ticker applied to the ticker it returned
ValidateTickerAgain ==
    /\ pc = "ticker_validated"
    /\ once.ok
    /\ twice' = validate_ticker(once.value)
    /\ pc' = "ticker_revalidated"
    /\ UNCHANGED <<configVars, ticker, sessionVars, loginVars, scrapeVars, stages,
                   exportVars, exitStatus, interruptedAt, tableVars, input, once>>

NextTicker ==
    \/ ValidateTicker
    \/ ValidateTickerAgain

SpecTicker == InitTicker /\ [][NextTicker]_vars

\* ------------------------------------------------------------------------
\* Quarter extraction on generated texts
\* ------------------------------------------------------------------------

\* longest run of whitespace between a quarter token and a year
MaxGap == 2

\* the whitespace runs between the two parts, the empty one included
Gaps == SeqsUpTo({" ", "\n"}, MaxGap)

\* quarter tokens in both letter cases; Q5 is no quarter
QuarterTokens == {<<q, d>> : q \in {"Q", "q"}, d \in {"1", "4", "5"}}

\* a four-digit year and a three-digit number
YearTokens == {<<"2","0","2","4">>, <<"2","0","2">>}

\* a quarter token and a year in either order, between a prefix and a suffix
QuarterTexts ==
    LET pairs == {<<a, g, b>> : a \in QuarterTokens, g \in Gaps, b \in YearTokens}
        cores == {p[1] \o p[2] \o p[3] : p \in pairs}
                     \cup {p[3] \o p[2] \o p[1] : p \in pairs}
    IN  {pre \o c \o suf :
            pre \in {<<>>, <<"x">>}, c \in cores, suf \in {<<>>, <<" ", "S">>, <<"7">>}}
        \cup {TxQ1, TxQ4, TxTrend, TxQuarterly, <<>>}

InitQuarter ==
    /\ pc = "quarter_input"
    /\ input \in QuarterTexts
    /\ argTicker = <<>>
    /\ outputFormat = "json"
    /\ envUser = NoneText
    /\ envPass = NoneText
    /\ tbl = <<>>
    /\ Blank

\* extract_quarter_from_text applied to the input
ExtractQuarter ==
    /\ pc = "quarter_input"
    /\ once' = extract_quarter_from_text(input)
    /\ pc' = "quarter_extracted"
    /\ UNCHANGED <<configVars, ticker, sessionVars, loginVars, scrapeVars, stages,
                   exportVars, exitStatus, interruptedAt, tableVars, input, twice>>

NextQuarter == ExtractQuarter

SpecQuarter == InitQuarter /\ [][NextQuarter]_vars

\* ------------------------------------------------------------------------
\* The cell normalizers on generated texts
\* ------------------------------------------------------------------------

\* longest generated cell text
MaxTextLen == 4

\* a digit, a blank, a bracket, the percent sign, a dash and a point
TextAlphabet == {"1", " ", "(", "%", "-", "."}

\* longer cell texts: brackets between blanks, percentages, and a text with
\* runs of blanks, a non-breaking space and a dash
ExampleTexts ==
    { <<"1", " ", "(", " ", ")", " ", "2">>,
      <<"1", "2", ".", "5">>,
      <<"1", "2", ".", "5", "%">>,
      <<" ", " ", "T", " ", " ", " ", "x", NBSP, " ", NDASH, "[", "1", "]", " ">> }

NormalizerTexts == SeqsUpTo(TextAlphabet, MaxTextLen) \cup ExampleTexts

InitNormalize ==
    /\ pc = "text_input"
    /\ input \in NormalizerTexts
    /\ argTicker = <<>>
    /\ outputFormat = "json"
    /\ envUser = NoneText
    /\ envPass = NoneText
    /\ tbl = <<>>
    /\ Blank

\* clean_text applied to the input, and to its own result
ApplyCleanText ==
    /\ pc = "text_input"
    /\ once' = clean_text(input)
    /\ twice' = clean_text(once')
    /\ pc' = "clean_text"
    /\ UNCHANGED <<configVars, ticker, sessionVars, loginVars, scrapeVars, stages,
                   exportVars, exitStatus, interruptedAt, tableVars, input>>

\* clean_number applied to the input, and to its own result
ApplyCleanNumber ==
    /\ pc = "text_input"
    /\ once' = clean_number(input)
    /\ twice' = clean_number(once')
    /\ pc' = "clean_number"
    /\ UNCHANGED <<configVars, ticker, sessionVars, loginVars, scrapeVars, stages,
                   exportVars, exitStatus, interruptedAt, tableVars, input>>

\* parse_percentage applied to the input, and to its own result
ApplyParsePercentage ==
    /\ pc = "text_input"
    /\ once' = parse_percentage(input)
    /\ twice' = parse_percentage(once')
    /\ pc' = "parse_percentage"
    /\ UNCHANGED <<configVars, ticker, sessionVars, loginVars, scrapeVars, stages,
                   exportVars, exitStatus, interruptedAt, tableVars, input>>

NextNormalize ==
    \/ ApplyCleanText
    \/ ApplyCleanNumber
    \/ ApplyParsePercentage

SpecNormalize == InitNormalize /\ [][NextNormalize]_vars

\* ------------------------------------------------------------------------
\* Current-holdings extraction on generated pages
\* ------------------------------------------------------------------------

TxPctSuffixed == <<"5", ".", "2", "%">>

\* a first row with a column no mapping rule matches
RankHeaderRow == <<Th(TxRank), Th(TxInstitution), Th(TxSharesHeld)>>

\* the data rows of the generated pages: a full row, a blank first cell, two
\* cells only, a blank second cell, a percentage that has its suffix
PageRows ==
    { <<Td(TxVanguard), Td(TxShares), Td(TxPct)>>,
      <<Td(TxBlank), Td(TxShares), Td(TxPct)>>,
      <<Td(TxVanguard), Td(TxShares)>>,
      <<Td(TxVanguard), Td(TxBlank), Td(TxPct)>>,
      <<Td(TxVanguard), Td(TxShares), Td(TxPctSuffixed)>> }

\* a page: an optional table without holdings header, a table of generated
\* rows, an optional table of the pool
GeneratedPages ==
    {pre \o <<<<h>> \o rows>> \o suf :
        pre \in {<<>>, <<TableOther>>},
        h \in {HeaderRow, RankHeaderRow},
        rows \in SeqsUpTo(PageRows, MaxRows),
        suf \in {<<>>} \cup {<<u>> : u \in TablePool}}

InitPage ==
    /\ pc = "page_input"
    /\ input \in GeneratedPages
    /\ argTicker = <<>>
    /\ outputFormat = "json"
    /\ envUser = NoneText
    /\ envPass = NoneText
    /\ tbl = <<>>
    /\ Blank

\* scrape_current_holdings applied to the page
ScrapePage ==
    /\ pc = "page_input"
    /\ once' = CurrentHoldingsOf(input)
    /\ pc' = "page_scraped"
    /\ UNCHANGED <<configVars, ticker, sessionVars, loginVars, scrapeVars, stages,
                   exportVars, exitStatus, interruptedAt, tableVars, input, twice>>

NextPage == ScrapePage

SpecPage == InitPage /\ [][NextPage]_vars

\* ------------------------------------------------------------------------
\* Header mapping on generated labels
\* ------------------------------------------------------------------------

\* most words of a generated header label
MaxWords == 2

\* the words of the generated labels: the keywords of the rules in several
\* letter cases, and a word no rule knows
HeaderWords ==
    { <<"I","n","s","t","i","t","u","t","i","o","n">>, <<"N","A","M","E">>,
      <<"F","u","n","d">>, <<"S","H","A","R","E","S">>, <<"s","h","a","r","e">>,
      <<"V","a","l","u","e">>, <<"m","a","r","k","e","t">>,
      <<"P","e","r","c","e","n","t">>, <<"%">>,
      <<"P","o","r","t","f","o","l","i","o">>, <<"R","a","n","k">> }

HeaderLabels == {JoinSpace(words) : words \in SeqsUpTo(HeaderWords, MaxWords)}

InitHeader ==
    /\ pc = "header_input"
    /\ input \in HeaderLabels
    /\ argTicker = <<>>
    /\ outputFormat = "json"
    /\ envUser = NoneText
    /\ envPass = NoneText
    /\ tbl = <<>>
    /\ Blank

\* _create_header_mapping applied to a first row with this one label: the
\* field of column 0, "" when the mapping has no entry for it
MapHeader ==
    /\ pc = "header_input"
    /\ once' = _create_header_mapping(<<clean_text(input)>>)[1]
    /\ pc' = "header_mapped"
    /\ UNCHANGED <<configVars, ticker, sessionVars, loginVars, scrapeVars, stages,
                   exportVars, exitStatus, interruptedAt, tableVars, input, twice>>

NextHeader == MapHeader

SpecHeader == InitHeader /\ [][NextHeader]_vars

\* ------------------------------------------------------------------------
\* Navigation on generated pages
\* ------------------------------------------------------------------------

TxAbout == <<"A","b","o","u","t">>
HrefAbout == <<"/","a","b","o","u","t">>
HrefHoldings == <<"/","h","o","l","d","i","n","g","s","/">>

\* the links a generated page is made of
LinkPool ==
    { Link(<<"I","n","s","t","i","t","u","t","i","o","n","a","l">>, HrefAbout),
      Link(<<"T","o","p"," ","H","o","l","d","i","n","g","s">>, HrefAbout),
      Link(<<"i","n","s","t","i","t","u","t","i","o","n","a","l">>, HrefAbout),
      Link(<<"i","n","v","e","s","t","o","r","s">>, HrefAbout),
      Link(TxAbout, HrefHoldings),
      Link(TxAbout, HrefAbout) }

\* most links of a generated page
MaxLinks == 2

\* the primary page and the faults of one navigation
NavigationInputs ==
    [ title : TitlePool,
      links : {ls \in SUBSET LinkPool : Cardinality(ls) <= MaxLinks},
      getRaises : BOOLEAN,
      stepRaises : BOOLEAN ]

InitNavigate ==
    /\ pc = "navigate_input"
    /\ input \in NavigationInputs
    /\ argTicker = <<>>
    /\ outputFormat = "json"
    /\ envUser = NoneText
    /\ envPass = NoneText
    /\ tbl = <<>>
    /\ Blank

\* navigate_to_stock_page on the page: the value returned, and whether the
\* fallback URL was requested
NavigatePage ==
    /\ pc = "navigate_input"
    /\ once' = [ok |-> navigate_to_stock_page(input.getRaises, input.title,
                                              input.stepRaises),
                fallback |-> FallbackLoaded(input.getRaises, input.title, input.links)]
    /\ pc' = "navigated"
    /\ UNCHANGED <<configVars, ticker, sessionVars, loginVars, scrapeVars, stages,
                   exportVars, exitStatus, interruptedAt, tableVars, input, twice>>

NextNavigate == NavigatePage

SpecNavigate == InitNavigate /\ [][NextNavigate]_vars

\* ------------------------------------------------------------------------
\* The login check on generated pages
\* ------------------------------------------------------------------------

\* the URL after the form was submitted: the login page in two letter cases,
\* and the account page
UrlPool ==
    { <<"/","l","o","g","i","n","/">>, <<"/","L","o","g","i","n","?","e","=","1">>,
      <<"/","a","c","c","o","u","n","t">> }

\* the links of the page after the form was submitted
AccountLinkPool ==
    { Link(<<"L","o","g","o","u","t">>, HrefAbout),
      Link(TxAbout, <<"/","l","o","g","o","u","t">>),
      Link(<<"l","o","g"," ","o","u","t">>, HrefAbout),
      Link(TxAbout, HrefAbout) }

\* the page and the faults of one login check
LoginCheckInputs ==
    [ url : UrlPool,
      links : {ls \in SUBSET AccountLinkPool : Cardinality(ls) <= MaxLinks},
      urlRaises : BOOLEAN,
      findRaises : BOOLEAN ]

InitLoginCheck ==
    /\ pc = "login_submitted"
    /\ input \in LoginCheckInputs
    /\ argTicker = <<>>
    /\ outputFormat = "json"
    /\ envUser = NoneText
    /\ envPass = NoneText
    /\ tbl = <<>>
    /\ Blank

\* login() 118-127 after the form was submitted: the value it returns
CheckLogin ==
    /\ pc = "login_submitted"
    /\ once' = LoginOutcome("none",
                    is_logged_in(input.urlRaises, UrlHasLogin(input.url),
                                 input.findRaises, LogoutLink(input.links)))
    /\ pc' = "login_checked"
    /\ UNCHANGED <<configVars, ticker, sessionVars, loginVars, scrapeVars, stages,
                   exportVars, exitStatus, interruptedAt, tableVars, input, twice>>

NextLoginCheck == CheckLogin

SpecLoginCheck == InitLoginCheck /\ [][NextLoginCheck]_vars

\* ------------------------------------------------------------------------
\* Historical extraction on generated pages
\* ------------------------------------------------------------------------

DigitAt == <<"0", "1", "2", "3", "4", "5", "6", "7", "8", "9">>

\* the text of the i-th quarter tab: Q1 2024, Q2 2024, .., Q1 2023, ..
TabLabel(i) ==
    <<"Q", DigitAt[((i - 1) % 4) + 2], " ", "2", "0", "2", DigitAt[5 - ((i - 1) \div 4)]>>

\* a tab element: its text, whether the click raises, and what
\* scrape_current_holdings returns once it is clicked
Tab(tabText, clickRaises, holdings) ==
    [text |-> tabText, clickRaises |-> clickRaises, holdings |-> holdings]

\* a quarter tab whose click shows the holdings table
GoodTab(i) == Tab(TabLabel(i), FALSE, CurrentHoldingsOf(<<TableGood>>))

\* the tabs that differ from a good one: no quarter in the text, a click that
\* raises, a page without holdings
OddTabs(i) ==
    { Tab(TxQuarterly, FALSE, CurrentHoldingsOf(<<TableGood>>)),
      Tab(TabLabel(i), TRUE, CurrentHoldingsOf(<<TableGood>>)),
      Tab(TabLabel(i), FALSE, <<>>) }

\* up to MaxTabs tab elements, all good ones but at most one
TabLists ==
    UNION {{[i \in 1..n |-> GoodTab(i)]}
              \cup UNION {{[i \in 1..n |-> IF i = p THEN odd ELSE GoodTab(i)] :
                              odd \in OddTabs(p)} : p \in 1..n}
           : n \in 0..MaxTabs}

\* the class-matched containers of the page: none, one without a quarter
\* label, one with a label and a holdings table
SectionLists ==
    { <<>>, <<Section(TxTrend, <<TableGood>>)>>, <<Section(TxQ4, <<TableGood>>)>> }

InitHistorical ==
    /\ pc = "historical_input"
    /\ input \in [sections : SectionLists, tabs : TabLists]
    /\ argTicker = <<>>
    /\ outputFormat = "json"
    /\ envUser = NoneText
    /\ envPass = NoneText
    /\ tbl = <<>>
    /\ Blank

\* scrape_historical_holdings applied to the page
ScrapeHistorical ==
    /\ pc = "historical_input"
    /\ once' = scrape_historical_holdings(input.sections, input.tabs)
    /\ pc' = "historical_scraped"
    /\ UNCHANGED <<configVars, ticker, sessionVars, loginVars, scrapeVars, stages,
                   exportVars, exitStatus, interruptedAt, tableVars, input, twice>>

NextHistorical == ScrapeHistorical

SpecHistorical == InitHistorical /\ [][NextHistorical]_vars

\* ------------------------------------------------------------------------
\* Properties
\* ------------------------------------------------------------------------

\* the stage s has started
HasStarted(s) == \E i \in 1..Len(stages) : stages[i] = s

\* the records of a sequence of holdings all carry a non-empty name
AllNamed(holdings) ==
    \A i \in 1..Len(holdings) :
        "name" \in DOMAIN holdings[i] /\ holdings[i]["name"] # <<>>

\* C1: in every run in which a driver was created, driver.quit() has been
\* called exactly once when the process has ended, and never more than once
\* before, whether the run ended normally, by a failure or by an interrupt.
C1_QuitExactlyOnce ==
    /\ quitCalls <= 1
    /\ (pc = "exited" /\ driver # "none") => (quitCalls = 1 /\ driver = "quit")

\* a run interrupted while the quarter tabs were visited has quit its driver
C1_Witness ==
    pc = "exited" /\ interruptedAt = "hist_tabs" /\ quitCalls = 1 /\ tabsLeft > 0

\* the position of a stage in the order login, navigate, extract current,
\* extract historical, export
StageRank(s) ==
    CASE s = "login" -> 1
      [] s = "navigate" -> 2
      [] s = "current" -> 3
      [] s = "historical" -> 4
      [] s = "export" -> 5

\* C2: the stages of a run start in the order login, navigate, extract
\* current, extract historical, export; navigation and extraction start only
\* after login() has returned True, and an export only after scrape_all_data
\* has returned.
C2_StageOrder ==
    /\ \A i, j \in 1..Len(stages) : i < j => StageRank(stages[i]) < StageRank(stages[j])
    /\ (HasStarted("navigate") \/ HasStarted("current") \/ HasStarted("historical"))
          => (loginDone /\ loginReturn)
    /\ HasStarted("export") => assembled

\* a run that went through all five stages
C2_Witness ==
    pc = "exited" /\ stages = <<"login", "navigate", "current", "historical", "export">>

\* the ticker fails validation, or the username or the password is missing
ConfigFailure ==
    \/ argTicker = <<>>
    \/ ~TickerPattern(Upper(Strip(argTicker)))
    \/ envUser \in {NoneText, <<>>}
    \/ envPass \in {NoneText, <<>>}

\* C3: a run with a configuration failure never creates a driver and never
\* loads a page, it does not get past the construction of the login handler,
\* and it ends with exit status 1.
C3_ConfigFailureIsPreflight ==
    ConfigFailure =>
        /\ driver = "none"
        /\ ~networkUsed
        /\ pc \in {"validate", "construct", "finally", "exited"}
        /\ (pc = "exited" => exitStatus = 1)

\* a run with a valid ticker and an empty password has ended
C3_Witness ==
    /\ pc = "exited"
    /\ validate_ticker(argTicker).ok
    /\ envUser = <<"u">>
    /\ envPass = <<>>
    /\ exitStatus = 1

\* C4: when login() has returned False no export is attempted and no output
\* file is created, and the run ends with exit status 1 and its driver quit.
C4_LoginFailureIsFatal ==
    (loginDone /\ ~loginReturn) =>
        /\ attempted = {}
        /\ files = {}
        /\ pc \in {"login_check", "finally", "exited"}
        /\ (pc = "exited" => (exitStatus = 1 /\ driver = "quit" /\ quitCalls = 1))

\* a run whose credentials were rejected has ended
C4_Witness ==
    pc = "exited" /\ loginCause = "rejected" /\ interruptedAt = "none"

\* the waits of login() for the form elements
FormTimeouts == {"email_timeout", "password_timeout", "submit_timeout"}

\* C5: the value login() returns after a wait for a form element timed out
\* differs from the value it returns when the form was submitted and the
\* success check failed.
C5_TimeoutDistinctFromRejection ==
    (loginDone /\ loginCause \in FormTimeouts)
        => loginReturn # LoginOutcome("none", FALSE)

\* the exports the output format selects
SelectedExports(format) == IF format = "both" THEN {"json", "csv"} ELSE {format}

\* C6: a run that assembled a result without current and without historical
\* holdings, and was not interrupted, has logged the warning, has called the
\* save function of every selected format and ends with exit status 0.
C6_EmptyResultIsWarning ==
    (pc = "exited" /\ assembled /\ NoData(result) /\ interruptedAt = "none") =>
        /\ warned
        /\ attempted = SelectedExports(outputFormat)
        /\ exitStatus = 0

\* a run on a page that was found and held nothing, with both formats
C6_Witness ==
    /\ pc = "exited"
    /\ navReturn
    /\ assembled
    /\ NoData(result)
    /\ outputFormat = "both"
    /\ exitStatus = 0
    /\ warned

\* C7: when the title of the primary page contains "404", or contains
\* "not found" in any letter case, navigation returns False and
\* scrape_all_data returns a result without holdings, and neither extraction
\* is started.
C7_NotFoundPage ==
    (title # NoneText
     /\ (\/ Contains(<<"4","0","4">>, title)
         \/ Contains(<<"n","o","t"," ","f","o","u","n","d">>, Lower(title)))) =>
        /\ ~navReturn
        /\ assembled
        /\ NoData(result)
        /\ ~HasStarted("current")
        /\ ~HasStarted("historical")

\* a run on a page titled NOT FOUND has ended
C7_Witness ==
    pc = "exited" /\ title = TitleNotFoundUpper /\ assembled /\ exitStatus = 0

\* C8: the result never holds more than 8 quarterly snapshots; they are the
\* first 8 of the snapshots in the order they were found, and on the tab path
\* no more than 8 tabs are visited.
C8_AtMostEightQuarters ==
    /\ Len(result.historical_holdings) <= 8
    /\ assembled =>
          /\ Len(result.historical_holdings) <= Len(historical_data)
          /\ \A i \in 1..Len(historical_data) :
                i <= 8 => /\ i <= Len(result.historical_holdings)
                          /\ result.historical_holdings[i] = historical_data[i]
    /\ tabsFound > 0 => Len(historical_data) + tabsLeft <= 8

\* a run that found more than 8 snapshots has returned 8 of them
C8_Witness ==
    pc = "exited" /\ Len(historical_data) > 8 /\ Len(result.historical_holdings) = 8

\* C9: every record of current_holdings and of the holdings of every
\* quarterly snapshot has a name that is not empty.
C9_EveryRecordNamed ==
    /\ AllNamed(result.current_holdings)
    /\ \A i \in 1..Len(result.historical_holdings) :
          AllNamed(result.historical_holdings[i].holdings)
    /\ \A i \in 1..Len(historical_data) : AllNamed(historical_data[i].holdings)

\* a run whose result holds current records and quarterly snapshots
C9_Witness ==
    /\ pc = "exited"
    /\ result.current_holdings # <<>>
    /\ result.historical_holdings # <<>>

\* C10: the records parsed from a table are no more than its rows after the
\* first that have at least 3 cells, and each record is the one built from
\* such a row; neither a shorter row nor the first row gives a record.
C10_ShortRowsAndHeaderSkipped ==
    pc = "table_parsed" =>
        LET long == {i \in 2..Len(tbl) : Len(tbl[i]) >= 3}
        IN  /\ Len(parsed) <= Cardinality(long)
            /\ \A k \in 1..Len(parsed) :
                  \E i \in long :
                      parsed[k] =
                          RowData(_create_header_mapping(CellTexts(tbl[1])),
                                  tbl[i], Len(tbl[i]))

\* a table with a two-cell row naming an institution and a full row gave
\* one record
C10_Witness ==
    /\ pc = "table_parsed"
    /\ Len(tbl) = 3
    /\ tbl[1] = HeaderRow
    /\ tbl[2] = <<Td(TxVanguard), Td(TxVanguard)>>
    /\ tbl[3] = <<Td(TxVanguard), Td(TxBlank), Td(TxShares)>>
    /\ Len(parsed) = 1

\* the text is one to five upper-case ASCII letters
IsTickerForm(t) ==
    /\ Len(t) \in 1..5
    /\ \A i \in 1..Len(t) : t[i] \in {UpperLetters[k] : k \in 1..26}

QuarterLabels(t) ==
    LET IsQ(i) == i + 1 <= Len(t) /\ t[i] \in {"Q", "q"} /\ t[i + 1] \in {"1", "2", "3", "4"}
        IsYear(i) == i + 3 <= Len(t) /\ \A k \in i..(i + 3) : t[k] \in Digits
        IsGap(i, j) == i < j /\ \A k \in i..(j - 1) : t[k] \in Whitespace
        Label(q, y) == <<"Q", t[q + 1], " ">> \o SubSeq(t, y, y + 3)
    IN  {Label(i, j) : <<i, j>> \in
            {p \in (1..Len(t)) \X (1..Len(t)) :
                IsQ(p[1]) /\ IsYear(p[2]) /\ IsGap(p[1] + 2, p[2])}}
        \cup
        {Label(j, i) : <<i, j>> \in
            {p \in (1..Len(t)) \X (1..Len(t)) :
                IsYear(p[1]) /\ IsQ(p[2]) /\ IsGap(p[1] + 4, p[2])}}

\* C12: for every text with a quarter token next to a 4-digit year, in either
\* order, extract_quarter_from_text returns the canonical label "Q<digit>
\* <year>" whatever the letter case and spacing of the text; for every other
\* text it returns None.
C12_CanonicalQuarterLabel ==
    pc = "quarter_extracted" =>
        IF QuarterLabels(input) # {}
        THEN once \in QuarterLabels(input)
        ELSE once = NoneText

\* C13: clean_text, clean_number and parse_percentage are idempotent on every
\* input text: applying the function to its own result changes nothing.
C13_NormalizersIdempotent ==
    pc \in {"clean_text", "clean_number", "parse_percentage"} => twice = once

\* the text consists only of digits, "." and "-" and holds no "%"
OnlyDigitsPointsDashes(t) ==
    /\ t # <<>>
    /\ \A i \in 1..Len(t) : t[i] \in Digits \cup {".", "-"}

\* C14 as stated: parse_percentage appends "%" to the cleaned text exactly when
\* it holds no "%" and consists only of digits, "." and "-", a text without a
\* digit such as "-" included; otherwise it returns the cleaned text.
C14_SuffixWithoutDigit ==
    pc = "parse_percentage" =>
        LET cleaned == clean_text(input)
        IN  once = IF OnlyDigitsPointsDashes(cleaned)
                   THEN cleaned \o <<"%">>
                   ELSE cleaned

\* C14: parse_percentage appends "%" to the cleaned text exactly when it
\* consists only of digits, "." and "-" and holds at least one digit;
\* otherwise it returns the cleaned text unchanged.
C14_SuffixNeedsDigit ==
    pc = "parse_percentage" =>
        LET cleaned == clean_text(input)
        IN  once = IF OnlyDigitsPointsDashes(cleaned)
                      /\ \E i \in 1..Len(cleaned) : cleaned[i] \in Digits
                   THEN cleaned \o <<"%">>
                   ELSE cleaned

\* a lone dash was returned without the suffix
C14_Witness ==
    /\ pc = "parse_percentage"
    /\ input = <<" ", "-">>
    /\ once = <<"-">>

\* the data rows of a table that have at least 3 cells and a non-empty first
\* cell, in document order
NamedRows(table) ==
    SelectSeq(Tail(table), LAMBDA row : Len(row) >= 3 /\ clean_text(row[1].text) # <<>>)

\* a percent cell as the claim describes it: a value of digits (and a point)
\* gets the suffix "%"
Suffixed(t) == IF IsDigit(RemoveChars(t, {"."})) THEN t \o <<"%">> ELSE t

\* C15 as stated: when the first table of the page has the headers Institution /
\* Shares Held / % of Portfolio, the extraction yields exactly one record per
\* data row with at least 3 cells and a non-empty institution cell, each with
\* the keys name, shares and percent_portfolio.
C15_OneFullRecordPerRow ==
    (pc = "page_scraped" /\ input[1][1] = HeaderRow) =>
        LET rows == NamedRows(input[1])
        IN  /\ Len(once) = Len(rows)
            /\ \A k \in 1..Len(rows) :
                  once[k] = [name |-> clean_text(rows[k][1].text),
                             shares |-> clean_text(rows[k][2].text),
                             percent_portfolio |-> Suffixed(clean_text(rows[k][3].text))]

\* the record expected of a named row: a key for every non-empty cell
ExpectedRecord(row) ==
    LET keys == {"name"}
                  \cup (IF clean_text(row[2].text) # <<>> THEN {"shares"} ELSE {})
                  \cup (IF clean_text(row[3].text) # <<>> THEN {"percent_portfolio"} ELSE {})
    IN  [k \in keys |->
            CASE k = "name" -> clean_text(row[1].text)
              [] k = "shares" -> clean_text(row[2].text)
              [] OTHER -> Suffixed(clean_text(row[3].text))]

\* C15: when the first table of the page has the headers Institution / Shares
\* Held / % of Portfolio and at least one data row with 3 cells or more and a
\* non-empty institution cell, the extraction yields exactly one record per
\* such row, with the key name and the keys shares and percent_portfolio of the
\* cells that are not empty; the shares text is kept as formatted and a
\* digits-only percent value gets the suffix "%".
C15_OneRecordPerRow ==
    (pc = "page_scraped" /\ input[1][1] = HeaderRow /\ NamedRows(input[1]) # <<>>) =>
        LET rows == NamedRows(input[1])
        IN  once = [k \in 1..Len(rows) |-> ExpectedRecord(rows[k])]

\* the table of the example, with a row whose institution cell is blank, gave
\* the one record of the example
C15_Witness ==
    /\ pc = "page_scraped"
    /\ input[1] = TableGood
    /\ once = <<[name |-> TxVanguard, shares |-> TxShares,
                 percent_portfolio |-> TxPct \o <<"%">>]>>

\* C16: when both collections are non-empty and writing the current-holdings
\* file fails, the write of the historical-holdings file is still attempted.
C16_HistoricalFileStillAttempted ==
    (/\ result.current_holdings # <<>>
     /\ result.historical_holdings # <<>>
     /\ \E i \in 1..Len(csvWrites) :
            csvWrites[i] = [file |-> "csv_current", ok |-> FALSE])
    => \E j \in 1..Len(csvWrites) : csvWrites[j].file = "csv_historical"

\* C17: with output format "both" a failed JSON export is logged and the CSV
\* export is still attempted, and a failed export of either format does not
\* abort the run: a run that is not interrupted exits with status 0.
C17_ExportFailureDoesNotAbort ==
    interruptedAt = "none" =>
        /\ (outputFormat = "both" /\ "json" \in failed
                /\ pc \in {"summary", "finally", "exited"})
              => "csv" \in attempted
        /\ (failed # {} /\ pc = "exited") => exitStatus = 0

\* both exports failed and the run ended with status 0
C17_Witness ==
    /\ pc = "exited"
    /\ outputFormat = "both"
    /\ attempted = {"json", "csv"}
    /\ failed = {"json", "csv"}
    /\ exitStatus = 0

\* a header cell of the table contains one of the tokens institution, shares,
\* value, portfolio, whatever its letter case
HasHoldingsHeader(table) ==
    \E r \in 1..Len(table) : \E c \in 1..Len(table[r]) :
        /\ table[r][c].tag = "th"
        /\ \E token \in {KwInstitution, KwShares, KwValue, KwPortfolio} :
              Contains(token, Lower(table[r][c].text))

\* the formatted records of one table
RecordsOf(table) == format_holdings_data(_parse_holdings_table(table))

\* the records of the first table of the page that satisfies Use, none if no
\* table does
RecordsOfFirst(page, Use(_)) ==
    LET hits == {i \in 1..Len(page) : Use(page[i])}
    IN  IF hits = {} THEN <<>>
        ELSE RecordsOf(page[CHOOSE i \in hits : \A j \in hits : i <= j])

\* C18 as stated: the records returned are those of the first table, in
\* document order, with a holdings header; no later table is consulted, even
\* when that table yields no records.
C18_FirstMatchingTableOnly ==
    pc = "page_scraped" => once = RecordsOfFirst(input, HasHoldingsHeader)

\* the table has a holdings header and yields at least one record
HasHoldingsRecords(table) == HasHoldingsHeader(table) /\ RecordsOf(table) # <<>>

\* C18: the records returned are those of the first table, in document order,
\* that has a holdings header and yields at least one record; a table with a
\* holdings header that yields no records is passed over and the later tables
\* are consulted.
C18_FirstTableWithRecords ==
    pc = "page_scraped" => once = RecordsOfFirst(input, HasHoldingsRecords)

\* the first table has a holdings header and no usable row, and the records of
\* the table after it were returned
C18_Witness ==
    /\ pc = "page_scraped"
    /\ input = <<TableNoName, TableGood>>
    /\ once = RecordsOf(TableGood)
    /\ once # <<>>

\* the mapping rules in the order they are tried: the tokens and the field
MappingRules ==
    << [tokens |-> {KwInstitution, KwName, KwFund}, field |-> "name"],
       [tokens |-> {KwShares, KwShare}, field |-> "shares"],
       [tokens |-> {KwValue, KwMarket}, field |-> "value"],
       [tokens |-> {KwPercent, KwPct, KwPortfolio}, field |-> "percent_portfolio"] >>

\* the rules a label matches: one of the rule's tokens is part of the label,
\* whatever the letter case
RulesMatching(label) ==
    {r \in 1..Len(MappingRules) :
        \E token \in MappingRules[r].tokens : Contains(token, Lower(label))}

\* C19: a header label is mapped to the field of the first rule it matches, the
\* rules tried in the order name, shares, value, percent_portfolio, and is
\* unmapped when it matches none: a label with "fund" and "shares" maps to
\* name, one with "share" and "portfolio" to shares.
C19_FirstMatchingRuleWins ==
    pc = "header_mapped" =>
        /\ \A r \in RulesMatching(input) :
              (\A q \in RulesMatching(input) : r <= q) => once = MappingRules[r].field
        /\ RulesMatching(input) = {} => once = ""
        /\ (Contains(KwFund, Lower(input)) /\ Contains(KwShares, Lower(input)))
              => once = "name"
        /\ (Contains(KwShare, Lower(input)) /\ Contains(KwPortfolio, Lower(input))
                /\ ~\E token \in MappingRules[1].tokens : Contains(token, Lower(input)))
              => once = "shares"

\* a label that names shares before a fund was mapped to name
C19_Witness ==
    /\ pc = "header_mapped"
    /\ input = <<"S","H","A","R","E","S"," ","F","u","n","d">>
    /\ once = "name"

\* the data rows of a table under RankHeaderRow that give a record: 3 cells or
\* more and a non-empty cell in the institution column, the second one
RankedRows(table) ==
    SelectSeq(Tail(table), LAMBDA row : Len(row) >= 3 /\ clean_text(row[2].text) # <<>>)

\* the records come from the first table, whose first column has the header
\* Rank, which no mapping rule matches
FirstColumnUnmapped ==
    /\ pc = "page_scraped"
    /\ input[1][1] = RankHeaderRow
    /\ RankedRows(input[1]) # <<>>

\* C20 as stated: a column whose header matches no mapping rule is kept in
\* each record under its own cleaned header label, here Rank, with the cell's
\* cleaned text as value.
C20_UnmappedUnderHeaderLabel ==
    FirstColumnUnmapped =>
        LET rows == RankedRows(input[1])
        IN  /\ Len(once) = Len(rows)
            /\ \A k \in 1..Len(rows) :
                  /\ "Rank" \in DOMAIN once[k]
                  /\ once[k]["Rank"] = clean_text(rows[k][1].text)

\* C20: a column whose header matches no mapping rule is kept in each record
\* under the key column_<i>, i the 0-based position of the column (column_0
\* for the first one), with the cell's cleaned text as value; a record has no
\* such key when the cell is empty.
C20_UnmappedUnderColumnIndex ==
    FirstColumnUnmapped =>
        LET rows == RankedRows(input[1])
        IN  /\ Len(once) = Len(rows)
            /\ \A k \in 1..Len(rows) :
                  /\ "Rank" \notin DOMAIN once[k]
                  /\ IF clean_text(rows[k][1].text) # <<>>
                     THEN /\ "column_0" \in DOMAIN once[k]
                          /\ once[k]["column_0"] = clean_text(rows[k][1].text)
                     ELSE "column_0" \notin DOMAIN once[k]

\* a row under the headers Rank / Institution / Shares Held gave a record
\* with the first cell under column_0
C20_Witness ==
    /\ pc = "page_scraped"
    /\ input = <<<<RankHeaderRow, <<Td(TxVanguard), Td(TxShares), Td(TxPct)>>>>>>
    /\ once = <<[column_0 |-> TxVanguard, name |-> TxShares, shares |-> TxPct]>>

\* every HoldingRecord of a result: those of current_holdings and those of
\* every snapshot of historical_holdings
RecordsOfResult(data) ==
    {data.current_holdings[i] : i \in 1..Len(data.current_holdings)}
    \cup UNION {{data.historical_holdings[q].holdings[i] :
                    i \in 1..Len(data.historical_holdings[q].holdings)} :
                q \in 1..Len(data.historical_holdings)}

\* the record is as the normalizer leaves it: no bracket in shares and value,
\* no percent_portfolio made of digits, "." and "-" alone
IsNormalized(rec) ==
    /\ \A k \in {"shares", "value"} \cap DOMAIN rec :
          \A i \in 1..Len(rec[k]) : rec[k][i] \notin {"(", ")", "[", "]"}
    /\ "percent_portfolio" \in DOMAIN rec =>
          ~(/\ OnlyDigitsPointsDashes(rec["percent_portfolio"])
            /\ \E i \in 1..Len(rec["percent_portfolio"]) :
                  rec["percent_portfolio"][i] \in Digits)

\* C21: every HoldingRecord of the result, in current_holdings and in every
\* snapshot whichever historical path produced it, is normalized: shares and
\* value hold no bracket, and a percent_portfolio value made only of digits,
\* "." and "-" ends with "%".
C21_EveryRecordNormalized ==
    \A rec \in RecordsOfResult(result) : IsNormalized(rec)

\* the page has a link whose text or href contains institutional, holdings or
\* investor, whatever the letter case
HasHoldingsLink(links) ==
    \E l \in links :
        \E token \in { <<"i","n","s","t","i","t","u","t","i","o","n","a","l">>,
                        <<"h","o","l","d","i","n","g","s">>,
                        <<"i","n","v","e","s","t","o","r">> } :
            Contains(token, Lower(l.text)) \/ Contains(token, Lower(l.href))

\* C22: after the primary page has loaded and is no not-found page, the
\* fallback URL is loaded exactly when the page has no link whose text or href
\* contains institutional, holdings or investor; navigation then reports
\* success without looking at the fallback page.
C22_FallbackExactlyWithoutLink ==
    (pc = "navigated" /\ ~input.getRaises /\ ~NotFoundTitle(input.title)) =>
        /\ once.fallback <=> ~HasHoldingsLink(input.links)
        /\ (once.fallback /\ ~input.stepRaises) => once.ok

\* the URL does not contain login, read in lower case as the check reads it
UrlWithoutLogin(url) ==
    ~\E i \in 1..Len(url) :
        i + 4 <= Len(url) /\ Lower(SubSeq(url, i, i + 4)) = <<"l","o","g","i","n">>

\* a logout link is on the page: a link to a "logout" address or with the
\* text "Logout"
LogoutLinkPresent(links) ==
    \E l \in links :
        \/ \E i \in 1..Len(l.href) :
              i + 5 <= Len(l.href) /\ SubSeq(l.href, i, i + 5) = <<"l","o","g","o","u","t">>
        \/ \E i \in 1..Len(l.text) :
              i + 5 <= Len(l.text) /\ SubSeq(l.text, i, i + 5) = <<"L","o","g","o","u","t">>

NoSectionSnapshot(sections) ==
    \A i \in 1..Len(sections) : _parse_historical_section(sections[i]) = <<>>

\* the snapshots of the tabs at the positions 1..m that satisfy Recorded, in
\* DOM order, each with the label of the tab's own text
SnapshotsOfTabs(tabs, m, Recorded(_)) ==
    LET kept == SelectSeq([i \in 1..m |-> i], LAMBDA i : Recorded(tabs[i]))
    IN  [k \in 1..Len(kept) |->
            Snapshot(extract_quarter_from_text(tabs[kept[k]].text),
                     tabs[kept[k]].holdings)]

\* the tab path ran only when the section path produced no snapshot, and it
\* activated the first 8 elements at most, in DOM order
TabPathOrder ==
    /\ once.clicked # <<>> => NoSectionSnapshot(input.sections)
    /\ Len(once.clicked) <= 8
    /\ Len(once.clicked) <= Len(input.tabs)
    /\ \A i \in 1..Len(once.clicked) : once.clicked[i] = i
    /\ (NoSectionSnapshot(input.sections) /\ Len(input.tabs) <= 8)
          => Len(once.clicked) = Len(input.tabs)

\* the click worked and the text of the tab yields a quarter label
Labelled(tab) == ~tab.clickRaises /\ Truthy(extract_quarter_from_text(tab.text))

\* C24 as stated: the tab path runs only when the section path produced no
\* snapshot, activates at most 8 elements in DOM order, and records a snapshot
\* for every activated element whose text yields a quarter label.
C24_SnapshotPerLabelledTab ==
    pc = "historical_scraped" =>
        /\ TabPathOrder
        /\ NoSectionSnapshot(input.sections) =>
              once.data = SnapshotsOfTabs(input.tabs, Len(once.clicked), Labelled)

\* the tab is labelled and the extraction on its page yields a record
LabelledWithRecords(tab) == Labelled(tab) /\ tab.holdings # <<>>

\* C24: the tab path runs only when the section path produced no snapshot,
\* activates at most 8 elements in DOM order, and records a snapshot for every
\* activated element whose text yields a quarter label and on whose page the
\* current-holdings extraction yields at least one record.
C24_SnapshotPerTabWithRecords ==
    pc = "historical_scraped" =>
        /\ TabPathOrder
        /\ NoSectionSnapshot(input.sections) =>
              once.data = SnapshotsOfTabs(input.tabs, Len(once.clicked),
                                          LabelledWithRecords)

\* nine tabs were found, the second one shows a page without holdings: eight
\* were activated and seven snapshots recorded
C24_Witness ==
    /\ pc = "historical_scraped"
    /\ Len(input.tabs) = 9
    /\ input.tabs[2] = Tab(TabLabel(2), FALSE, <<>>)
    /\ NoSectionSnapshot(input.sections)
    /\ once.clicked = <<1, 2, 3, 4, 5, 6, 7, 8>>
    /\ Len(once.data) = 7
    /\ once.data[2].quarter = TabLabel(3)

\* ---------------------------------------------------------------------------
\* Errors while one quarter is extracted
\* ---------------------------------------------------------------------------

\* the snapshots accumulated so far are still there, in the same order
KeepsSnapshots ==
    /\ Len(historical_data') >= Len(historical_data)
    /\ SubSeq(historical_data', 1, Len(historical_data)) = historical_data

\* the loop goes on with the next tab or the next container
NextQuarterStillProcessed ==
    /\ pc' = pc
    /\ \/ pc = "hist_tabs" /\ tabsLeft' = tabsLeft - 1 /\ sectionsLeft' = sectionsLeft
       \/ pc = "hist_sections" /\ sectionsLeft' = sectionsLeft - 1
                               /\ tabsLeft' = tabsLeft

\* C25: an error raised while one quarter is extracted skips only that quarter:
\* the step that counts the error keeps the snapshots accumulated so far, moves
\* on to the next tab or container and leaves the result and the exit status
\* alone, and a run with such errors that is not interrupted reaches the export
\* and exits with status 0.
C25_QuarterErrorSkipsOnlyThatQuarter ==
    /\ [][quarterErrors' > quarterErrors =>
             /\ KeepsSnapshots
             /\ NextQuarterStillProcessed
             /\ result' = result
             /\ exitStatus' = exitStatus]_vars
    /\ [](quarterErrors > 0 /\ interruptedAt = "none" /\ pc = "exited"
             => HasStarted("export") /\ exitStatus = 0)

\* a tab raised after a snapshot had been recorded, a later tab added another
\* snapshot, and the run ended with status 0 after the export
C25_Witness ==
    /\ pc = "exited"
    /\ interruptedAt = "none"
    /\ quarterErrors > 0
    /\ tabsFound > Len(result.historical_holdings) + quarterErrors - 1
    /\ Len(result.historical_holdings) >= 2
    /\ HasStarted("export")
    /\ exitStatus = 0

\* ---------------------------------------------------------------------------
\* Snapshots per container of the section path
\* ---------------------------------------------------------------------------

\* C26: in the section path each matching container whose text yields a quarter
\* label contributes at most one snapshot: a step of the loop over the
\* containers appends at most one element to historical_data.
C26_AtMostOneSnapshotPerContainer ==
    [][(pc = "hist_sections" /\ pc' = pc)
          => Len(historical_data') <= Len(historical_data) + 1]_vars

\* ---------------------------------------------------------------------------
\* What the later steps leave alone in the result
\* ---------------------------------------------------------------------------

\* C27: the current_holdings of the result is the value stored by the
\* current-holdings step before the historical extraction: no later step, in
\* particular no quarter tab with its repeated extraction, changes
\* result.current_holdings, and no step after the result was created changes
\* its ticker.
C27_CurrentHoldingsAndTickerKept ==
    [][/\ pc \notin {"navigate", "current"}
            => result'.current_holdings = result.current_holdings
       /\ pc # "navigate" => result'.ticker = result.ticker]_vars

\* the current-holdings step found nothing, the extraction repeated for a
\* quarter tab found records, and the assembled result holds that snapshot
\* next to its empty current holdings
C27_Witness ==
    /\ assembled
    /\ tabsFound > 0
    /\ result.ticker # <<>>
    /\ result.current_holdings = <<>>
    /\ \E i \in 1..Len(result.historical_holdings) :
          result.historical_holdings[i].holdings # result.current_holdings

\* ---------------------------------------------------------------------------
\* Where the current holdings can come from
\* ---------------------------------------------------------------------------

\* row r of the table has a non-empty cell in a column whose header is mapped
\* to the name field
NameCellFilled(table, r) ==
    \E c \in 1..Len(table[r]) :
        /\ c <= Len(table[1])
        /\ HeaderField(clean_text(table[1][c].text)) = "name"
        /\ clean_text(table[r][c].text) # <<>>

\* a table with a qualifying header and a data row of 3 or more cells with a
\* non-empty name cell
QualifyingTable(table) ==
    /\ HasHoldingsHeader(table)
    /\ \E r \in 2..Len(table) :
          Len(table[r]) >= MinColumns /\ NameCellFilled(table, r)

\* C28: current_holdings is non-empty only if some table of the page has a
\* qualifying header and a data row with 3 or more cells and a non-empty name
\* cell; when no table yields records the fallback adds nothing and the result
\* is the empty sequence.
C28_NonEmptyOnlyFromQualifyingTable ==
    pc = "page_scraped" =>
        /\ once # <<>> => \E t \in 1..Len(input) : QualifyingTable(input[t])
        /\ (\A t \in 1..Len(input) : ~HasHoldingsRecords(input[t])) => once = <<>>

\* records were extracted from the second table of a page whose first table
\* has no holdings header
C28_Witness ==
    /\ pc = "page_scraped"
    /\ once # <<>>
    /\ Len(input) >= 2
    /\ ~HasHoldingsHeader(input[1])
    /\ QualifyingTable(input[2])

====
